---- MODULE Spec2Model ----
(***************************************************************************)
(* Model of the real-time quote / order-book / trade aggregator of         *)
(* market_data_schwab/market_liquidity_real_time/                          *)
(* steaming_client_bookmap_like.py: the three feed handlers, the           *)
(* process-wide dictionaries current_bbo, order_book and trade_log they    *)
(* mutate, the textual display of them and the periodic task that runs it; *)
(* and of the request rate limiter of the IMF fetchers                     *)
(* (scripts/data_collection/IMF_data_fetcher.py).                          *)
(*                                                                         *)
(* Prices are finite numbers, counted in ticks as integers (NaN and the    *)
(* infinities that float() also accepts are left out); a raw JSON field is *)
(* a record [k, v] whose kind k says what Python finds in the message:     *)
(*   "none"  the key is missing or null            (dict.get gives None)   *)
(*   "num"   a JSON number of value v                                      *)
(*   "str"   a string that float()/int() parse to v                        *)
(*   "bad"   anything float()/int() raise on       ("abc", a list, ...)    *)
(***************************************************************************)
EXTENDS Integers, Sequences, FiniteSets, TLC

VARIABLES
    current_bbo,   \* symbol -> [bid_price, bid_size, ask_price, ask_size, timestamp]
    order_book,    \* symbol -> [bids, asks], each an OrderedDict price -> volume
    trade_log,     \* symbol -> deque(maxlen=100) of trade entries
    display_task,  \* the task of periodic_display_task: [pc, must_cancel]
    main_loop,     \* main_streaming_loop: [pc, stream]
    screen,        \* what the last call of display_bookmap_like_textual logged
    ingested,      \* history: symbol -> every entry the trade handler appended
    calls,         \* history: the number of handler calls made so far
    last,          \* history: the last handler or display call, [op, data, outcome]
    cancel_at,     \* history: where the display task was when the interrupt came
    co,            \* the calls in progress, statement by statement: [pc, data, now, local]
    turn,          \* the coroutine the event loop is running, or "loop"
    committed,     \* history: the three dicts after the last call that returned
    clock,         \* IMF fetcher: what time.time() reads, in seconds
    request_timestamps, \* IMF fetcher: the list of that name
    REQUEST_COUNT, \* IMF fetcher: the counter of that name
    issued,        \* history: every timestamp check_rate_limit appended
    pause          \* history: what the last call of check_rate_limit found and did

data_vars == <<current_bbo, order_book, trade_log>>
task_vars == <<display_task, main_loop, screen, cancel_at>>
step_vars == <<co, turn, committed>>
limiter_vars == <<clock, request_timestamps, REQUEST_COUNT, issued, pause>>
vars == <<current_bbo, order_book, trade_log, display_task, main_loop, screen,
          ingested, calls, last, cancel_at, co, turn, committed, clock,
          request_timestamps, REQUEST_COUNT, issued, pause>>

(***************************************************************************)
(* Bounds of the model.                                                    *)
(***************************************************************************)
\* Prices are 0..MaxPrice ticks and sizes 1..MaxVolume.
MaxPrice == 2
MaxVolume == 2
\* The longest bids or asks list of a depth snapshot.
MaxLevels == 2
\* Feed timestamps are 1..MaxTime.
MaxTime == 1
\* The handler calls of one run of Spec.
MaxCalls == 3
\* The trades that SpecTradeLog puts into one log.
MaxLogTrades == 102
\* The clock of the IMF fetcher reads 0..MaxClock seconds; at most MaxRequests
\* requests are made; time.sleep returns up to MaxOversleep seconds late and
\* the clock is read again up to MaxLag seconds later.
MaxClock == 5
MaxRequests == 12
MaxOversleep == 1
MaxLag == 1

(***************************************************************************)
(* Program constants, and a second symbol for the messages that are not    *)
(* about the configured one.                                               *)
(***************************************************************************)
ETF_SYMBOL == "SPY"
MAX_BOOK_LEVELS_DISPLAY == 10
MAX_TRADES_DISPLAY == 10
TRADE_LOG_MAXLEN == 100
\* scripts/data_collection/IMF_data_fetcher.py, lines 17-18
MAX_REQUESTS_PER_MINUTE == 10
TIME_WINDOW_SECONDS == 3
MS_PER_DAY == 24 * 60 * 60 * 1000
OTHER_SYMBOL == "QQQ"

Symbols == {ETF_SYMBOL, OTHER_SYMBOL}
NoKey == "<no key>"
Keys == Symbols \cup {NoKey}

(***************************************************************************)
(* Raw JSON values and Python's conversions of them.                       *)
(***************************************************************************)
None == [k |-> "none", v |-> 0]
Bad == [k |-> "bad", v |-> 0]
Num(n) == [k |-> "num", v |-> n]
Str(n) == [k |-> "str", v |-> n]

IsNone(r) == r.k = "none"
IsNumber(r) == r.k = "num"
\* float(x) and int(x) succeed on a number and on a numeric string, and raise
\* TypeError / ValueError on everything else (None included).
Parses(r) == r.k \in {"num", "str"}
float(r) == r.v
int(r) == r.v
\* bool(x): None and 0 are falsy, every other value is truthy.
Truthy(r) == ~(IsNone(r) \/ (IsNumber(r) /\ r.v = 0))

(***************************************************************************)
(* dict and OrderedDict.  A dict keyed by symbol is a function whose       *)
(* DOMAIN is the set of keys; an OrderedDict price -> volume is the        *)
(* sequence of its items <<price, volume>> in iteration order.             *)
(***************************************************************************)
\* The value is stored under every key of the dict.
DictPut_every_key(d, key, val) == [x \in (DOMAIN d) \cup {key} |-> val]

DictPut(d, key, val) ==
    [x \in (DOMAIN d) \cup {key} |-> IF x = key THEN val ELSE d[x]]

\* d.get(key, default)
Get(d, key, default) == IF key \in DOMAIN d THEN d[key] ELSE default

\* d.setdefault(key, default) in place of d.get: the default is stored.
AfterGet_setdefault(d, key, default) ==
    IF key \in DOMAIN d THEN d ELSE DictPut(d, key, default)

\* The dict d after d.get(key, default): get stores nothing, d has the keys
\* and the values it had.
AfterGet(d, key, default) == d

Min(a, b) == IF a < b THEN a ELSE b
\* seq[:n] and seq[-n:] for n > 0
FirstN(seq, n) == SubSeq(seq, 1, Min(Len(seq), n))
LastN(seq, n) == SubSeq(seq, Len(seq) - Min(Len(seq), n) + 1, Len(seq))
\* reversed(seq)
reversed(seq) == [i \in 1..Len(seq) |-> seq[Len(seq) - i + 1]]

Prices(od) == {od[i][1] : i \in 1..Len(od)}

\* The volume is added to the one the price has already.
SetItem_sum(od, price, volume) ==
    IF price \in Prices(od)
    THEN [i \in 1..Len(od) |->
             IF od[i][1] = price THEN <<price, od[i][2] + volume>> ELSE od[i]]
    ELSE Append(od, <<price, volume>>)

\* od[price] = volume: a new key goes to the end, an existing key keeps its
\* place and takes the new value.
SetItem(od, price, volume) ==
    IF price \in Prices(od)
    THEN [i \in 1..Len(od) |-> IF od[i][1] = price THEN <<price, volume>> ELSE od[i]]
    ELSE Append(od, <<price, volume>>)

GetItem(od, price) ==
    LET i == CHOOSE j \in 1..Len(od) : od[j][1] = price IN od[i][2]

\* key(a) goes before key(b); reverse = TRUE sorts descending.
Before(a, b, reverse) == IF reverse THEN a[1] > b[1] ELSE a[1] < b[1]

RECURSIVE Insert(_, _, _)
\* Stable insertion of item into the sorted sequence s, after its equals.
Insert(s, item, reverse) ==
    IF s = <<>> THEN <<item>>
    ELSE IF Before(item, Head(s), reverse)
         THEN <<item>> \o s
         ELSE <<Head(s)>> \o Insert(Tail(s), item, reverse)

\* sorted() left out: the items stay in the order of the message.
sorted_not_sorted(items, reverse) == items

RECURSIVE sorted(_, _)
sorted(items, reverse) ==
    IF items = <<>> THEN <<>>
    ELSE Insert(sorted(SubSeq(items, 1, Len(items) - 1), reverse),
                items[Len(items)], reverse)

\* A plain list in place of the deque: nothing is ever dropped.
DequeAppend_unbounded(dq, x) == Append(dq, x)

\* The item is appended twice.
DequeAppend_twice(dq, x) == Append(Append(dq, x), x)

\* deque(maxlen=n).append(x): a full deque drops its leftmost item.
DequeAppend(dq, x) ==
    IF Len(dq) >= TRADE_LOG_MAXLEN THEN Append(Tail(dq), x) ELSE Append(dq, x)

(***************************************************************************)
(* State after the module is imported (lines 35-48): the three dicts hold  *)
(* an entry for ETF_SYMBOL only.                                           *)
(***************************************************************************)
EmptyBBO ==
    [bid_price |-> None, bid_size |-> None, ask_price |-> None,
     ask_size |-> None, timestamp |-> None]

EmptyBook == [bids |-> <<>>, asks |-> <<>>]

\* content = {} : every .get() of it gives its default.
EmptyContent ==
    [key |-> NoKey, BID_PRICE |-> None, BID_SIZE |-> None, ASK_PRICE |-> None,
     ASK_SIZE |-> None, LAST_PRICE |-> None, LAST_SIZE |-> None,
     TRADE_TIME |-> None]

\* The entries are read from the end of the list: [-1] in place of [0].
ContentList_reversed(data) ==
    IF data.has_content THEN reversed(data.content) ELSE <<EmptyContent>>

\* data.get('content', [{}]): the list under 'content', [{}] without the key.
ContentList(data) == IF data.has_content THEN data.content ELSE <<EmptyContent>>

\* content.get('key', ETF_SYMBOL) and data.get('key', ETF_SYMBOL).
SymbolOf(key) == IF key = NoKey THEN ETF_SYMBOL ELSE key

\* data.get('timestamp', datetime.datetime.now().timestamp() * 1000)
Timestamp(data, now) == IF IsNone(data.timestamp) THEN Num(now) ELSE data.timestamp

(***************************************************************************)
(* handle_level_one_equity (lines 51-67).  The result is the dict          *)
(* current_bbo after the call and how the call ended: "ok", or "error"     *)
(* when an exception reached the handler's except clause.                  *)
(***************************************************************************)
LevelOneResult(data, bbo, now) ==
    IF ContentList(data) = <<>>
    THEN [current_bbo |-> bbo, outcome |-> "error"]          \* IndexError
    ELSE LET content == ContentList(data)[1]
             symbol == SymbolOf(content.key)
             q0 == IF symbol \in DOMAIN bbo THEN bbo[symbol] ELSE EmptyBBO
         IN [current_bbo |->
                DictPut(bbo, symbol,
                    [q0 EXCEPT !.bid_price = content.BID_PRICE,
                               !.bid_size = content.BID_SIZE,
                               !.ask_price = content.ASK_PRICE,
                               !.ask_size = content.ASK_SIZE,
                               !.timestamp = Timestamp(data, now)]),
             outcome |-> "ok"]

(***************************************************************************)
(* handle_level_two_book_data (lines 70-125).                              *)
(***************************************************************************)
RECURSIVE ParseLevels_raise_on_missing(_, _)
\* The test of line 97 left out: float(None) raises on an incomplete entry.
ParseLevels_raise_on_missing(raw, od) ==
    IF raw = <<>> THEN [err |-> FALSE, od |-> od]
    ELSE LET price == Head(raw).price
             volume == Head(raw).totalVolume
         IN IF Parses(volume) /\ Parses(price)
            THEN ParseLevels_raise_on_missing(Tail(raw),
                                              SetItem(od, float(price), int(volume)))
            ELSE [err |-> TRUE, od |-> od]

RECURSIVE ParseLevels(_, _)
\* The loops of lines 94-98 and 102-106 over the levels not yet read, with
\* the OrderedDict built so far: [err, od].  An entry without price or
\* without totalVolume is passed over; float() or int() raising ends the loop.
ParseLevels(raw, od) ==
    IF raw = <<>> THEN [err |-> FALSE, od |-> od]
    ELSE LET price == Head(raw).price
             volume == Head(raw).totalVolume
         IN IF ~IsNone(price) /\ ~IsNone(volume)
            THEN IF Parses(volume) /\ Parses(price)
                 THEN ParseLevels(Tail(raw), SetItem(od, float(price), int(volume)))
                 ELSE [err |-> TRUE, od |-> od]
            ELSE ParseLevels(Tail(raw), od)

RECURSIVE Update(_, _)
\* od.update(items)
Update(od, items) ==
    IF items = <<>> THEN od
    ELSE Update(SetItem(od, Head(items)[1], Head(items)[2]), Tail(items))

\* The stored side patched with the new levels, not replaced by them.
StoreSide_patch(old, new_od, reverse) == sorted(Update(old, new_od), reverse)

\* Lines 110-111: the side of the stored book is assigned a new OrderedDict of
\* the sorted new levels; nothing of the old one is kept.
StoreSide(old, new_od, reverse) == sorted(new_od, reverse)

\* The BBO side of an empty book side is cleared.
BBOFromBook_clear_empty(q, book, ts) ==
    [bid_price |-> IF book.bids # <<>> THEN Num(book.bids[1][1]) ELSE None,
     bid_size |-> IF book.bids # <<>> THEN Num(book.bids[1][2]) ELSE None,
     ask_price |-> IF book.asks # <<>> THEN Num(book.asks[1][1]) ELSE None,
     ask_size |-> IF book.asks # <<>> THEN Num(book.asks[1][2]) ELSE None,
     timestamp |-> ts]

\* A price that a quote stored is not overwritten from the book.
BBOFromBook_keep_quote(q, book, ts) ==
    LET q1 == IF book.bids # <<>> /\ IsNone(q.bid_price)
              THEN [q EXCEPT !.bid_price = Num(book.bids[1][1]),
                             !.bid_size = Num(book.bids[1][2])]
              ELSE q
        q2 == IF book.asks # <<>> /\ IsNone(q.ask_price)
              THEN [q1 EXCEPT !.ask_price = Num(book.asks[1][1]),
                              !.ask_size = Num(book.asks[1][2])]
              ELSE q1
    IN [q2 EXCEPT !.timestamp = ts]

\* The BBO is taken from the book only when the snapshot is more recent than
\* the stored quote.
BBOFromBook_if_newer(q, book, ts) ==
    IF IsNumber(q.timestamp) /\ IsNumber(ts) /\ ts.v <= q.timestamp.v
    THEN q
    ELSE [q EXCEPT !.bid_price = IF book.bids # <<>> THEN Num(book.bids[1][1]) ELSE @,
                   !.bid_size = IF book.bids # <<>> THEN Num(book.bids[1][2]) ELSE @,
                   !.ask_price = IF book.asks # <<>> THEN Num(book.asks[1][1]) ELSE @,
                   !.ask_size = IF book.asks # <<>> THEN Num(book.asks[1][2]) ELSE @,
                   !.timestamp = ts]

\* The best prices are taken from the book and the sizes are left.
BBOFromBook_prices_only(q, book, ts) ==
    [q EXCEPT !.bid_price = IF book.bids # <<>> THEN Num(book.bids[1][1]) ELSE @,
              !.ask_price = IF book.asks # <<>> THEN Num(book.asks[1][1]) ELSE @,
              !.timestamp = ts]

\* Lines 113-122: the best levels of the stored book go to the BBO.
BBOFromBook(q, book, ts) ==
    LET q1 == IF book.bids # <<>>
              THEN [q EXCEPT !.bid_price = Num(book.bids[1][1]),
                             !.bid_size = Num(GetItem(book.bids, book.bids[1][1]))]
              ELSE q
        q2 == IF book.asks # <<>>
              THEN [q1 EXCEPT !.ask_price = Num(book.asks[1][1]),
                              !.ask_size = Num(GetItem(book.asks, book.asks[1][1]))]
              ELSE q1
    IN [q2 EXCEPT !.timestamp = ts]

\* Lines 84-86 moved before the test of line 80: a message without content
\* initializes the symbol before the handler returns.
LevelTwoResult_initialize_first(data, book, bbo, now) ==
    LET symbol == SymbolOf(data.key)
        content == data.content
        fresh == symbol \notin DOMAIN book
        book0 == IF fresh THEN DictPut(book, symbol, EmptyBook) ELSE book
        bbo0 == IF fresh THEN DictPut(bbo, symbol, EmptyBBO) ELSE bbo
    IN IF ~content.truthy
       THEN [order_book |-> book0, current_bbo |-> bbo0, outcome |-> "nocontent"]
       ELSE LET new_bids == ParseLevels(content.bids, <<>>)
                new_asks == ParseLevels(content.asks, <<>>)
            IN IF new_bids.err \/ new_asks.err
               THEN [order_book |-> book0, current_bbo |-> bbo0, outcome |-> "error"]
               ELSE LET stored == [bids |-> StoreSide(book0[symbol].bids, new_bids.od, TRUE),
                                   asks |-> StoreSide(book0[symbol].asks, new_asks.od, FALSE)]
                    IN [order_book |-> DictPut(book0, symbol, stored),
                        current_bbo |->
                            DictPut(bbo0, symbol,
                                BBOFromBook(bbo0[symbol], stored, Timestamp(data, now))),
                        outcome |-> "ok"]

LevelTwoResult(data, book, bbo, now) ==
    LET symbol == SymbolOf(data.key)
        content == data.content
    IN IF ~content.truthy
       THEN [order_book |-> book, current_bbo |-> bbo, outcome |-> "nocontent"]
       ELSE LET fresh == symbol \notin DOMAIN book
                book0 == IF fresh THEN DictPut(book, symbol, EmptyBook) ELSE book
                bbo0 == IF fresh THEN DictPut(bbo, symbol, EmptyBBO) ELSE bbo
                new_bids == ParseLevels(content.bids, <<>>)
                new_asks == ParseLevels(content.asks, <<>>)
            IN IF new_bids.err \/ new_asks.err
               THEN [order_book |-> book0, current_bbo |-> bbo0, outcome |-> "error"]
               ELSE LET stored == [bids |-> StoreSide(book0[symbol].bids, new_bids.od, TRUE),
                                   asks |-> StoreSide(book0[symbol].asks, new_asks.od, FALSE)]
                    IN [order_book |-> DictPut(book0, symbol, stored),
                        current_bbo |->
                            DictPut(bbo0, symbol,
                                BBOFromBook(bbo0[symbol], stored, Timestamp(data, now))),
                        outcome |-> "ok"]

(***************************************************************************)
(* handle_timesale_equity (lines 135-172).                                 *)
(***************************************************************************)
\* The comparisons made strict: a trade at the ask or at the bid is UNKNOWN.
aggressor_side_strict(trade_price, bbo_at_trade) ==
    IF ~IsNone(bbo_at_trade.bid_price) /\ ~IsNone(bbo_at_trade.ask_price)
    THEN IF ~IsNumber(bbo_at_trade.ask_price) THEN "TypeError"
         ELSE IF trade_price > bbo_at_trade.ask_price.v THEN "BUY"
         ELSE IF ~IsNumber(bbo_at_trade.bid_price) THEN "TypeError"
         ELSE IF trade_price < bbo_at_trade.bid_price.v THEN "SELL"
         ELSE "UNKNOWN"
    ELSE "UNKNOWN"

\* The guard on the bid left out: a one-sided quote classifies against the ask.
aggressor_side_ask_only(trade_price, bbo_at_trade) ==
    IF ~IsNone(bbo_at_trade.ask_price)
    THEN IF ~IsNumber(bbo_at_trade.ask_price) THEN "TypeError"
         ELSE IF trade_price >= bbo_at_trade.ask_price.v THEN "BUY"
         ELSE IF IsNone(bbo_at_trade.bid_price) THEN "UNKNOWN"
         ELSE IF ~IsNumber(bbo_at_trade.bid_price) THEN "TypeError"
         ELSE IF trade_price <= bbo_at_trade.bid_price.v THEN "SELL"
         ELSE "UNKNOWN"
    ELSE "UNKNOWN"

\* The quote is not looked at: every trade is UNKNOWN.
aggressor_side_no_quote(trade_price, bbo_at_trade) == "UNKNOWN"

\* Lines 151-158.  Comparing the float trade_price with a stored price that is
\* not a number raises TypeError; the second comparison is made only when the
\* first one is false.
aggressor_side(trade_price, bbo_at_trade) ==
    IF ~IsNone(bbo_at_trade.bid_price) /\ ~IsNone(bbo_at_trade.ask_price)
    THEN IF ~IsNumber(bbo_at_trade.ask_price) THEN "TypeError"
         ELSE IF trade_price >= bbo_at_trade.ask_price.v THEN "BUY"
         ELSE IF ~IsNumber(bbo_at_trade.bid_price) THEN "TypeError"
         ELSE IF trade_price <= bbo_at_trade.bid_price.v THEN "SELL"
         ELSE "UNKNOWN"
    ELSE "UNKNOWN"

\* trade_dt.strftime('%H:%M:%S.%f')[:-3]: the time of day to the millisecond
\* (as milliseconds since midnight, UTC taken as the local zone); the date is
\* not kept.
strftime(ms) == ms % MS_PER_DAY

TimesaleResult(data, log, bbo, now) ==
    LET unchanged == [trade_log |-> log, current_bbo |-> bbo, outcome |-> "error",
                      entry |-> <<>>]
    IN IF ContentList(data) = <<>> THEN unchanged               \* IndexError
       ELSE LET content == ContentList(data)[1]
                symbol == SymbolOf(content.key)
            IN IF ~Parses(content.LAST_PRICE) \/ ~Parses(content.LAST_SIZE)
               THEN unchanged                                \* float() / int() raise
               ELSE LET trade_price == float(content.LAST_PRICE)
                        trade_volume == int(content.LAST_SIZE)
                        trade_time_ms == content.TRADE_TIME
                        log0 == IF symbol \notin DOMAIN log
                                THEN DictPut(log, symbol, <<>>) ELSE log
                        bbo0 == IF symbol \notin DOMAIN bbo
                                THEN DictPut(bbo, symbol, EmptyBBO) ELSE bbo
                        side == aggressor_side(trade_price, bbo0[symbol])
                        trade_entry ==
                            [time |-> IF Truthy(trade_time_ms)
                                      THEN strftime(trade_time_ms.v)
                                      ELSE strftime(now),
                             price |-> trade_price,
                             volume |-> trade_volume,
                             aggressor |-> side]
                    IN IF side = "TypeError"
                          \/ (Truthy(trade_time_ms) /\ ~IsNumber(trade_time_ms))
                       THEN [trade_log |-> log0, current_bbo |-> bbo0,
                             outcome |-> "error", entry |-> <<>>]
                       ELSE [trade_log |->
                                DictPut(log0, symbol,
                                        DequeAppend(log0[symbol], trade_entry)),
                             current_bbo |-> bbo0, outcome |-> "ok",
                             entry |-> <<trade_entry>>]

(***************************************************************************)
(* display_bookmap_like_textual (lines 179-238).  The screen is what one   *)
(* call logged after clearing the terminal: the section headers in the     *)
(* order they were written, the lines of each section, and whether the     *)
(* section's "no data" line was written.                                   *)
(***************************************************************************)
\* The lines of one side of the book: the first MAX_BOOK_LEVELS_DISPLAY items
\* of the stored OrderedDict, each with the mark of the best level, which is
\* written where price == bbo.get(...) holds.
BookLines(od, best) ==
    LET items == FirstN(od, MAX_BOOK_LEVELS_DISPLAY)
    IN [i \in 1..Len(items) |->
           [price |-> items[i][1], volume |-> items[i][2],
            best |-> IsNumber(best) /\ best.v = items[i][1]]]

\* Lines 204-210.  The test is on the truth value of the two prices; the
\* subtraction raises TypeError unless both are numbers.
SpreadLines(bbo) ==
    IF Truthy(bbo.ask_price) /\ Truthy(bbo.bid_price)
    THEN IF IsNumber(bbo.ask_price) /\ IsNumber(bbo.bid_price)
         THEN [kind |-> "spread",
               ask |-> bbo.ask_price, ask_size |-> bbo.ask_size,
               bid |-> bbo.bid_price, bid_size |-> bbo.bid_size,
               spread |-> bbo.ask_price.v - bbo.bid_price.v]
         ELSE [kind |-> "TypeError"]
    ELSE [kind |-> "not available"]

\* Lines 225-235: the last MAX_TRADES_DISPLAY trades, the most recent first,
\* BUY in green and SELL in red.
TradeLines(trades) ==
    LET shown == reversed(LastN(trades, MAX_TRADES_DISPLAY))
    IN [i \in 1..Len(shown) |->
           [time |-> shown[i].time, price |-> shown[i].price,
            volume |-> shown[i].volume, aggressor |-> shown[i].aggressor,
            color |-> IF shown[i].aggressor = "BUY" THEN "green"
                      ELSE IF shown[i].aggressor = "SELL" THEN "red" ELSE ""]]

\* Nothing rendered yet.
NoScreen ==
    [sections |-> <<>>, asks |-> <<>>, no_asks |-> FALSE,
     spread |-> [kind |-> "none"], bids |-> <<>>, no_bids |-> FALSE,
     trades_header |-> 0, trades |-> <<>>, no_trades |-> FALSE]

\* The screen after the call and how the call ended: "ok", or "raised" when
\* the TypeError of line 205 left the function, which has no try block.
DisplayResult(symbol, cbbo, obook, tlog) ==
    LET bbo == Get(cbbo, symbol, EmptyBBO)
        book == Get(obook, symbol, EmptyBook)
        trades == Get(tlog, symbol, <<>>)
        asks == BookLines(book.asks, bbo.ask_price)
        spread == SpreadLines(bbo)
        bids == BookLines(book.bids, bbo.bid_price)
        at_spread == [NoScreen EXCEPT !.sections = <<"ASKS", "SPREAD">>,
                                      !.asks = asks,
                                      !.no_asks = (Len(asks) = 0),
                                      !.spread = spread]
    IN IF spread.kind = "TypeError"
       THEN [screen |-> at_spread, outcome |-> "raised"]
       ELSE [screen |->
                [at_spread EXCEPT
                    !.sections = <<"ASKS", "SPREAD", "BIDS", "RECENT TRADES">>,
                    !.bids = bids,
                    !.no_bids = (Len(bids) = 0),
                    !.trades_header = Min(Len(trades), MAX_TRADES_DISPLAY),
                    !.trades = TradeLines(trades),
                    !.no_trades = (trades = <<>>)],
             outcome |-> "ok"]

(***************************************************************************)
(* periodic_display_task (lines 241-244) and the part of                   *)
(* main_streaming_loop that starts and stops it (lines 293-313).  The      *)
(* event loop runs one coroutine at a time and switches at an await that   *)
(* suspends: display_bookmap_like_textual has none, so the task waits only *)
(* before its first step and in asyncio.sleep.                             *)
(*   display_task.pc   "none"       not created                            *)
(*                     "start"      created by line 297, not run yet       *)
(*                     "render"     in display_bookmap_like_textual        *)
(*                     "sleep"      in asyncio.sleep(interval), line 244   *)
(*                     "cancelled"  ended by CancelledError                *)
(*                     "failed"     ended by the exception of a render     *)
(*   main_loop.pc      "setup"      before line 293                        *)
(*                     "sleep"      in asyncio.sleep(3600), line 301       *)
(*                     "interrupted" the exception for line 301 is pending *)
(*                     "await"      in await display_task, line 308        *)
(*                     "stopped"    after line 313                         *)
(*                     "failed"     in the except clause of line 315       *)
(***************************************************************************)
\* The display task can be resumed with CancelledError at every await.
Suspended_in_render(pc) == pc \in {"start", "sleep", "render"}

\* The places where the display task waits for the event loop.
Suspended(pc) == pc \in {"start", "sleep"}

Done(pc) == pc \in {"cancelled", "failed"}

(***************************************************************************)
(* The inbound messages of the model.                                      *)
(***************************************************************************)
\* Prices in ticks, 0 among them: the handlers test prices with "is not None".
PriceRange == 0..MaxPrice
VolumeRange == 1..MaxVolume
\* What data.get('timestamp') finds: nothing, or the feed's epoch milliseconds.
Timestamps == {None} \cup {Num(t) : t \in 1..MaxTime}
\* The readings of datetime.datetime.now(), later than every feed timestamp.
ClockTimes == {MaxTime + 1}

\* One side of a level-one quote: <<price field, size field>>.
QuoteSides ==
    {<<None, None>>, <<Bad, Num(1)>>} \cup {<<Num(p), Num(MaxVolume)>> : p \in PriceRange}

QuoteContent(key, b, a) ==
    [EmptyContent EXCEPT !.key = key, !.BID_PRICE = b[1], !.BID_SIZE = b[2],
                         !.ASK_PRICE = a[1], !.ASK_SIZE = a[2]]

\* Every combination of sides for ETF_SYMBOL; for the other symbol and for a
\* message without key, a two-sided quote, a bid-only quote and an ask-only one.
QuoteContents ==
    {QuoteContent(ETF_SYMBOL, b, a) : b \in QuoteSides, a \in QuoteSides}
    \cup {QuoteContent(key, b, a) :
            key \in {OTHER_SYMBOL, NoKey},
            b \in {<<None, None>>, <<Num(0), Num(MaxVolume)>>},
            a \in {<<None, None>>, <<Num(MaxPrice), Num(MaxVolume)>>}}

\* Messages with two content entries: a quote of ETF_SYMBOL followed by
\* another quote, of the same or of the other symbol.
TwoEntryQuoteMsgs ==
    {[has_content |-> TRUE,
      content |-> <<QuoteContent(ETF_SYMBOL, <<Num(0), Num(MaxVolume)>>,
                                 <<Num(MaxPrice), Num(MaxVolume)>>),
                    QuoteContent(key, <<Num(1), Num(1)>>, <<Num(1), Num(1)>>)>>,
      timestamp |-> None] : key \in Symbols}

QuoteMsgs ==
    {[has_content |-> TRUE, content |-> <<c>>, timestamp |-> None] : c \in QuoteContents}
    \cup {[has_content |-> TRUE, content |-> <<QuoteContent(ETF_SYMBOL, s, s)>>,
           timestamp |-> ts] :
            s \in {<<Num(MaxPrice - 1), Num(MaxVolume)>>}, ts \in Timestamps}
    \cup {[has_content |-> h, content |-> <<>>, timestamp |-> None] : h \in BOOLEAN}
    \cup TwoEntryQuoteMsgs

\* One entry of a depth snapshot's bids or asks list.
Level(price, volume) == [price |-> price, totalVolume |-> volume]
\* Bids are quoted below the highest price and asks above the lowest, at every
\* volume.
BidLevels == {Level(Num(p), Num(v)) : p \in 0..(MaxPrice - 1), v \in VolumeRange}
AskLevels == {Level(Num(p), Num(v)) : p \in 1..MaxPrice, v \in VolumeRange}
\* Entries that are not a pair of numbers: numeric strings, a field missing,
\* a field that is no number at all.
OddLevels ==
    {Level(Str(MaxPrice), Str(MaxVolume)),
     Level(None, Num(1)), Level(Num(1), None),
     Level(Bad, Num(1)), Level(Num(1), Bad)}
OneLevel == Level(Num(MaxPrice - 1), Num(1))

SeqsUpTo(S, n) == UNION {[1..m -> S] : m \in 0..n}

\* The lists of one side: every list of its valid levels, and every odd
\* entry alone, before and after a valid level.
SideLists(valid) ==
    SeqsUpTo(valid, MaxLevels)
    \cup {<<d>> : d \in OddLevels}
    \cup {<<d, OneLevel>> : d \in OddLevels}
    \cup {<<OneLevel, d>> : d \in OddLevels}
\* The few lists that stand on the other side of the book next to them.
FewSideLists == {<<>>, <<OneLevel>>}

\* Every list of bids over one ask, every list of asks over no bids, and the
\* few lists on both sides.
DepthContents ==
    {[truthy |-> TRUE, bids |-> b, asks |-> <<OneLevel>>] : b \in SideLists(BidLevels)}
    \cup {[truthy |-> TRUE, bids |-> <<>>, asks |-> a] : a \in SideLists(AskLevels)}
    \cup {[truthy |-> TRUE, bids |-> b, asks |-> a] :
            b \in FewSideLists, a \in FewSideLists}
NoContent == [truthy |-> FALSE, bids |-> <<>>, asks |-> <<>>]

DepthMsgs ==
    {[key |-> ETF_SYMBOL, content |-> c, timestamp |-> Num(MaxTime)] : c \in DepthContents}
    \cup {[key |-> key, content |-> [truthy |-> TRUE, bids |-> b, asks |-> a],
           timestamp |-> ts] :
            key \in {OTHER_SYMBOL, NoKey}, b \in FewSideLists, a \in FewSideLists,
            ts \in Timestamps}
    \cup {[key |-> key, content |-> NoContent, timestamp |-> None] : key \in Keys}
    \cup {[key |-> OTHER_SYMBOL,
           content |-> [truthy |-> TRUE, bids |-> <<Level(Bad, Num(1))>>, asks |-> <<>>],
           timestamp |-> None]}

TradeTimes == {None, Num(0), Num(1), Num(MS_PER_DAY + 1), Bad}

TradeContent(key, p, v, t) ==
    [EmptyContent EXCEPT !.key = key, !.LAST_PRICE = p, !.LAST_SIZE = v,
                         !.TRADE_TIME = t]

TradeContents ==
    {TradeContent(key, Num(p), Num(1), Num(1)) : key \in Keys, p \in PriceRange}
    \cup {TradeContent(ETF_SYMBOL, Num(1), Num(MaxVolume), t) : t \in TradeTimes}
    \cup {TradeContent(key, p, v, Num(1)) :
            key \in Symbols,
            p \in {None, Bad, Str(MaxPrice)}, v \in {Num(1)}}
    \cup {TradeContent(ETF_SYMBOL, Num(1), v, Num(1)) : v \in {None, Bad}}

\* A trade of ETF_SYMBOL followed by another trade in the same message.
TwoEntryTradeMsgs ==
    {[has_content |-> TRUE,
      content |-> <<TradeContent(ETF_SYMBOL, Num(1), Num(1), Num(1)),
                    TradeContent(key, Num(MaxPrice), Num(MaxVolume), Num(1))>>,
      timestamp |-> None] : key \in Symbols}

TradeMsgs ==
    {[has_content |-> TRUE, content |-> <<c>>, timestamp |-> None] : c \in TradeContents}
    \cup {[has_content |-> h, content |-> <<>>, timestamp |-> None] : h \in BOOLEAN}
    \cup TwoEntryTradeMsgs

(***************************************************************************)
(* The state machine: one action per handler call.                         *)
(***************************************************************************)
\* The coroutine functions that the event loop runs, and a function that
\* has no call in progress.
Tasks == {"quote", "depth", "trade", "display"}
Idle == [pc |-> 0, data |-> <<>>, now |-> 0, local |-> <<>>]
\* No call of check_rate_limit yet.
NoPause == [at |-> 0, held |-> 0, oldest |-> 0, slept |-> 0, stamp |-> 0]

Init ==
    /\ current_bbo = [s \in {ETF_SYMBOL} |-> EmptyBBO]
    /\ order_book = [s \in {ETF_SYMBOL} |-> EmptyBook]
    /\ trade_log = [s \in {ETF_SYMBOL} |-> <<>>]
    /\ display_task = [pc |-> "none", must_cancel |-> FALSE]
    /\ main_loop = [pc |-> "setup", stream |-> "none"]
    /\ screen = NoScreen
    /\ ingested = [s \in Symbols |-> <<>>]
    /\ calls = 0
    /\ last = [op |-> "init", data |-> <<>>, outcome |-> "ok"]
    /\ cancel_at = "none"
    /\ co = [t \in Tasks |-> Idle]
    /\ turn = "loop"
    /\ committed = [current_bbo |-> [s \in {ETF_SYMBOL} |-> EmptyBBO],
                    order_book |-> [s \in {ETF_SYMBOL} |-> EmptyBook],
                    trade_log |-> [s \in {ETF_SYMBOL} |-> <<>>]]
    /\ clock = 0
    /\ request_timestamps = <<>>
    /\ REQUEST_COUNT = 0
    /\ issued = <<>>
    /\ pause = NoPause

handle_level_one_equity(data, now) ==
    LET r == LevelOneResult(data, current_bbo, now)
    IN /\ current_bbo' = r.current_bbo
       /\ last' = [op |-> "quote", data |-> data, outcome |-> r.outcome]
       /\ calls' = calls + 1
       /\ UNCHANGED <<order_book, trade_log, ingested, task_vars,
                    step_vars, limiter_vars>>

handle_level_two_book_data(data, now) ==
    LET r == LevelTwoResult(data, order_book, current_bbo, now)
    IN /\ order_book' = r.order_book
       /\ current_bbo' = r.current_bbo
       /\ last' = [op |-> "depth", data |-> data, outcome |-> r.outcome]
       /\ calls' = calls + 1
       /\ UNCHANGED <<trade_log, ingested, task_vars,
                    step_vars, limiter_vars>>

handle_timesale_equity(data, now) ==
    LET r == TimesaleResult(data, trade_log, current_bbo, now)
        symbol == SymbolOf(ContentList(data)[1].key)
    IN /\ trade_log' = r.trade_log
       /\ current_bbo' = r.current_bbo
       /\ ingested' = IF r.outcome = "ok"
                      THEN [ingested EXCEPT ![symbol] = Append(@, r.entry[1])]
                      ELSE ingested
       /\ last' = [op |-> "trade", data |-> data, outcome |-> r.outcome]
       /\ calls' = calls + 1
       /\ UNCHANGED <<order_book, task_vars,
                    step_vars, limiter_vars>>

QuoteStep ==
    /\ calls < MaxCalls
    /\ \E data \in QuoteMsgs, now \in ClockTimes : handle_level_one_equity(data, now)

DepthStep ==
    /\ calls < MaxCalls
    /\ \E data \in DepthMsgs, now \in ClockTimes : handle_level_two_book_data(data, now)

TradeStep ==
    /\ calls < MaxCalls
    /\ \E data \in TradeMsgs, now \in ClockTimes : handle_timesale_equity(data, now)

Next == QuoteStep \/ DepthStep \/ TradeStep

Spec == Init /\ [][Next]_vars

(***************************************************************************)
(* Filling one trade log beyond its capacity: the n-th trade of a symbol   *)
(* carries TRADE_TIME n, so that every entry of a log is told from the     *)
(* others, after an optional first quote that gives the trades a side.     *)
(***************************************************************************)
LogTradeMsg(symbol) ==
    LET n == Len(ingested[symbol])
    IN [has_content |-> TRUE,
        content |-> <<TradeContent(symbol, Num(n % (MaxPrice + 1)), Num(1), Num(n + 1))>>,
        timestamp |-> None]

LogQuoteMsg ==
    [has_content |-> TRUE,
     content |-> <<QuoteContent(ETF_SYMBOL, <<Num(0), Num(1)>>, <<Num(MaxPrice), Num(1)>>)>>,
     timestamp |-> None]

LogQuoteStep ==
    /\ calls = 0
    /\ \E now \in ClockTimes : handle_level_one_equity(LogQuoteMsg, now)

LogTradeStep ==
    \E symbol \in Symbols, now \in ClockTimes :
        /\ Len(ingested[symbol]) < (IF symbol = ETF_SYMBOL THEN MaxLogTrades ELSE MaxCalls)
        /\ handle_timesale_equity(LogTradeMsg(symbol), now)

NextTradeLog == LogQuoteStep \/ LogTradeStep

SpecTradeLog == Init /\ [][NextTradeLog]_vars

(***************************************************************************)
(* The display task next to the feed: main_streaming_loop starts the       *)
(* stream and the task, the handlers are called as messages come, and an   *)
(* interrupt ends the run.                                                 *)
(***************************************************************************)
\* Lines 293-301: the stream is started, the display task created, and the
\* main coroutine goes to sleep.
start_stream ==
    /\ main_loop.pc = "setup"
    /\ main_loop' = [pc |-> "sleep", stream |-> "started"]
    /\ display_task' = [pc |-> "start", must_cancel |-> FALSE]
    /\ UNCHANGED <<data_vars, screen, ingested, calls, last, cancel_at,
                 step_vars, limiter_vars>>

\* The event loop resumes the display task where it waits: with
\* CancelledError when the task was cancelled meanwhile, and into the next
\* turn of "while True", the call of line 243, otherwise.
periodic_display_task ==
    /\ Suspended(display_task.pc)
    /\ display_task' =
          IF display_task.must_cancel
          THEN [pc |-> "cancelled", must_cancel |-> FALSE]
          ELSE [display_task EXCEPT !.pc = "render"]
    /\ UNCHANGED <<data_vars, main_loop, screen, ingested, calls, last, cancel_at,
                    step_vars, limiter_vars>>

\* The body of display_bookmap_like_textual (lines 181-238): the three dicts
\* are read with .get (lines 188-190, the log copied by list()), everything
\* after that works on what was read and writes to the terminal only.
Render(symbol) ==
    LET r == DisplayResult(symbol, current_bbo, order_book, trade_log)
    IN /\ screen' = r.screen
       /\ current_bbo' = AfterGet(current_bbo, symbol, EmptyBBO)
       /\ order_book' = AfterGet(order_book, symbol, EmptyBook)
       /\ trade_log' = AfterGet(trade_log, symbol, <<>>)
       /\ last' = [op |-> "render", data |-> symbol, outcome |-> r.outcome]
       /\ UNCHANGED <<ingested, calls,
                    step_vars, limiter_vars>>

\* Line 243: one render, from its first line to its last or to the exception
\* that ends the task; then the task is in the sleep of line 244.
display_bookmap_like_textual(symbol) ==
    LET r == DisplayResult(symbol, current_bbo, order_book, trade_log)
    IN /\ display_task.pc = "render"
       /\ Render(symbol)
       /\ display_task' =
             [display_task EXCEPT !.pc = IF r.outcome = "ok" THEN "sleep" ELSE "failed"]
       /\ UNCHANGED <<main_loop, cancel_at>>

\* The interrupt (Ctrl-C) comes at any time of the run; it reaches the main
\* coroutine at its await of line 301.
KeyboardInterrupt ==
    /\ main_loop.pc = "sleep"
    /\ main_loop' = [main_loop EXCEPT !.pc = "interrupted"]
    /\ cancel_at' = display_task.pc
    /\ UNCHANGED <<data_vars, display_task, screen, ingested, calls, last,
                    step_vars, limiter_vars>>

\* Lines 304-306, run when the event loop resumes the main coroutine, which
\* it does while the display task waits or after it ended:
\* display_task.cancel() has no effect on a task that is done.
stop_display_task ==
    /\ main_loop.pc = "interrupted"
    /\ Suspended(display_task.pc) \/ Done(display_task.pc)
    /\ display_task' = [display_task EXCEPT !.must_cancel = ~Done(display_task.pc)]
    /\ main_loop' = [main_loop EXCEPT !.pc = "await"]
    /\ UNCHANGED <<data_vars, screen, ingested, calls, last, cancel_at,
                 step_vars, limiter_vars>>

\* Lines 307-313: "await display_task" ends when the task has; CancelledError
\* is caught and the stream stopped, every other exception of the task leaves
\* the finally block for the except clause of line 315.
await_display_task ==
    /\ main_loop.pc = "await"
    /\ Done(display_task.pc)
    /\ main_loop' =
          IF display_task.pc = "cancelled"
          THEN [pc |-> "stopped", stream |-> "stopped"]
          ELSE [main_loop EXCEPT !.pc = "failed"]
    /\ UNCHANGED <<data_vars, display_task, screen, ingested, calls, last, cancel_at,
                    step_vars, limiter_vars>>

\* The messages of the runs with the display: quotes of ETF_SYMBOL with each
\* side absent, not a number, at price 0 or at the highest price; snapshots
\* of the few lists and one of two bids; a trade.
DisplaySides ==
    {<<None, None>>, <<Bad, Num(1)>>, <<Num(0), Num(MaxVolume)>>,
     <<Num(MaxPrice), Num(MaxVolume)>>}

DisplayQuoteMsgs ==
    {[has_content |-> TRUE, content |-> <<QuoteContent(ETF_SYMBOL, b, a)>>,
      timestamp |-> None] : b \in DisplaySides, a \in DisplaySides}

DisplayDepthMsgs ==
    {[key |-> ETF_SYMBOL, content |-> [truthy |-> TRUE, bids |-> b, asks |-> a],
      timestamp |-> None] :
        b \in FewSideLists \cup {<<Level(Num(0), Num(1)), OneLevel>>},
        a \in FewSideLists}

DisplayTradeMsgs ==
    {[has_content |-> TRUE,
      content |-> <<TradeContent(ETF_SYMBOL, Num(p), Num(1), Num(1))>>,
      timestamp |-> None] : p \in {0, MaxPrice}}

FeedStep ==
    /\ calls < MaxCalls
    /\ \E now \in ClockTimes :
          \/ \E data \in DisplayQuoteMsgs : handle_level_one_equity(data, now)
          \/ \E data \in DisplayDepthMsgs : handle_level_two_book_data(data, now)
          \/ \E data \in DisplayTradeMsgs : handle_timesale_equity(data, now)

DisplayStep == display_bookmap_like_textual(ETF_SYMBOL)

NextDisplay ==
    \/ start_stream
    \/ FeedStep
    \/ periodic_display_task
    \/ DisplayStep
    \/ KeyboardInterrupt
    \/ stop_display_task
    \/ await_display_task

SpecDisplay == Init /\ [][NextDisplay]_vars

(***************************************************************************)
(* display_bookmap_like_textual called for any symbol, the one of the      *)
(* display task or one that has no entry in some or all of the dicts,      *)
(* between the messages of the feed.                                       *)
(***************************************************************************)
\* A quote and a trade of the other symbol: each leaves it with an entry in
\* some of the dicts and none in order_book.
OtherQuoteMsg ==
    [has_content |-> TRUE,
     content |-> <<QuoteContent(OTHER_SYMBOL, <<Num(0), Num(1)>>,
                                <<Num(MaxPrice), Num(1)>>)>>,
     timestamp |-> None]
OtherTradeMsg ==
    [has_content |-> TRUE,
     content |-> <<TradeContent(OTHER_SYMBOL, Num(MaxPrice), Num(1), Num(1))>>,
     timestamp |-> None]

OtherFeedStep ==
    /\ calls < MaxCalls
    /\ \E now \in ClockTimes :
          \/ handle_level_one_equity(OtherQuoteMsg, now)
          \/ handle_timesale_equity(OtherTradeMsg, now)

RenderStep ==
    \E symbol \in Symbols :
        /\ Render(symbol)
        /\ UNCHANGED <<display_task, main_loop, cancel_at>>

NextRender == FeedStep \/ OtherFeedStep \/ RenderStep

SpecRender == Init /\ [][NextRender]_vars

(***************************************************************************)
(* The handlers and the display statement by statement, under the event    *)
(* loop: one thread runs one coroutine at a time, and another coroutine    *)
(* gets the turn only when the running one returns or waits at an await.   *)
(* co[task].pc is the next statement of the call in progress of that       *)
(* coroutine function (0: no call in progress), co[task].local what the    *)
(* call holds in local variables; the three dicts are read and written     *)
(* where the source reads and writes them.                                 *)
(***************************************************************************)
\* Every statement is a place where the turn can go to another coroutine,
\* as it is between threads.
Suspends_at_every_statement(task, pc) == TRUE

\* The statements inside a handler or the display at which the coroutine
\* waits for the event loop: the bodies of lines 51-125, 135-172 and 179-238
\* have no await (the calls of logger are plain calls).
Suspends(task, pc) == FALSE

\* The three dicts as one value.
Dicts == [current_bbo |-> current_bbo, order_book |-> order_book,
          trade_log |-> trade_log]

\* What a statement leaves: the dicts, the next statement (0 after the
\* return or the except clause), the local variables and how the call ended.
Goto(S, pc, local) == [S |-> S, pc |-> pc, local |-> local, outcome |-> "ok"]
Return(S, outcome, local) == [S |-> S, pc |-> 0, local |-> local, outcome |-> outcome]

\* handle_level_one_equity, lines 55-64.
QuoteStatement(c, S) ==
    LET list == ContentList(c.data)
        content == list[1]
        symbol == SymbolOf(content.key)
        Assign(field, value) == [S EXCEPT !.current_bbo[symbol][field] = value]
    IN CASE c.pc = 1 ->                                        \* lines 55-56
              IF list = <<>> THEN Return(S, "error", <<>>) ELSE Goto(S, 2, <<>>)
         [] c.pc = 2 ->                                        \* lines 57-58
              Goto(IF symbol \in DOMAIN S.current_bbo THEN S
                   ELSE [S EXCEPT !.current_bbo = DictPut(@, symbol, EmptyBBO)],
                   3, <<>>)
         [] c.pc = 3 -> Goto(Assign("bid_price", content.BID_PRICE), 4, <<>>)
         [] c.pc = 4 -> Goto(Assign("bid_size", content.BID_SIZE), 5, <<>>)
         [] c.pc = 5 -> Goto(Assign("ask_price", content.ASK_PRICE), 6, <<>>)
         [] c.pc = 6 -> Goto(Assign("ask_size", content.ASK_SIZE), 7, <<>>)
         [] c.pc = 7 ->                                        \* line 64
              Return(Assign("timestamp", Timestamp(c.data, c.now)), "ok", <<>>)

\* handle_level_two_book_data, lines 77-122.  local is the best price read
\* in line 115 or 119.
DepthStatement(c, S) ==
    LET symbol == SymbolOf(c.data.key)
        content == c.data.content
        new_bids == ParseLevels(content.bids, <<>>)
        new_asks == ParseLevels(content.asks, <<>>)
        book == S.order_book[symbol]
        Assign(field, value) == [S EXCEPT !.current_bbo[symbol][field] = value]
    IN CASE c.pc = 1 ->                                        \* lines 77-84
              IF ~content.truthy THEN Return(S, "nocontent", <<>>)
              ELSE IF symbol \in DOMAIN S.order_book THEN Goto(S, 4, <<>>)
              ELSE Goto(S, 2, <<>>)
         [] c.pc = 2 ->                                        \* line 85
              Goto([S EXCEPT !.order_book = DictPut(@, symbol, EmptyBook)], 3, <<>>)
         [] c.pc = 3 ->                                        \* line 86
              Goto([S EXCEPT !.current_bbo = DictPut(@, symbol, EmptyBBO)], 4, <<>>)
         [] c.pc = 4 ->                                        \* lines 89-106
              IF new_bids.err \/ new_asks.err THEN Return(S, "error", <<>>)
              ELSE Goto(S, 5, <<>>)
         [] c.pc = 5 ->                                        \* line 110
              Goto([S EXCEPT !.order_book[symbol].bids =
                                 StoreSide(@, new_bids.od, TRUE)], 6, <<>>)
         [] c.pc = 6 ->                                        \* line 111
              Goto([S EXCEPT !.order_book[symbol].asks =
                                 StoreSide(@, new_asks.od, FALSE)], 7, <<>>)
         [] c.pc = 7 ->                                        \* lines 114-116
              IF book.bids = <<>> THEN Goto(S, 9, <<>>)
              ELSE Goto(Assign("bid_price", Num(book.bids[1][1])), 8,
                        <<book.bids[1][1]>>)
         [] c.pc = 8 ->                                        \* line 117
              Goto(Assign("bid_size", Num(GetItem(book.bids, c.local[1]))), 9, <<>>)
         [] c.pc = 9 ->                                        \* lines 118-120
              IF book.asks = <<>> THEN Goto(S, 11, <<>>)
              ELSE Goto(Assign("ask_price", Num(book.asks[1][1])), 10,
                        <<book.asks[1][1]>>)
         [] c.pc = 10 ->                                       \* line 121
              Goto(Assign("ask_size", Num(GetItem(book.asks, c.local[1]))), 11, <<>>)
         [] c.pc = 11 ->                                       \* line 122
              Return(Assign("timestamp", Timestamp(c.data, c.now)), "ok", <<>>)

\* handle_timesale_equity, lines 139-169.  local is aggressor_side, and the
\* appended entry at the return.
TradeStatement(c, S) ==
    LET list == ContentList(c.data)
        content == list[1]
        symbol == SymbolOf(content.key)
        trade_time_ms == content.TRADE_TIME
    IN CASE c.pc = 1 ->                                        \* lines 139-143
              IF list = <<>> THEN Return(S, "error", <<>>)
              ELSE IF ~Parses(content.LAST_PRICE) \/ ~Parses(content.LAST_SIZE)
              THEN Return(S, "error", <<>>)
              ELSE Goto(S, 2, <<>>)
         [] c.pc = 2 ->                                        \* lines 145-146
              Goto(IF symbol \in DOMAIN S.trade_log THEN S
                   ELSE [S EXCEPT !.trade_log = DictPut(@, symbol, <<>>)], 3, <<>>)
         [] c.pc = 3 ->                                        \* lines 147-148
              Goto(IF symbol \in DOMAIN S.current_bbo THEN S
                   ELSE [S EXCEPT !.current_bbo = DictPut(@, symbol, EmptyBBO)],
                   4, <<>>)
         [] c.pc = 4 ->                                        \* lines 151-158
              LET side == aggressor_side(float(content.LAST_PRICE),
                                         S.current_bbo[symbol])
              IN IF side = "TypeError" THEN Return(S, "error", <<>>)
                 ELSE Goto(S, 5, <<side>>)
         [] c.pc = 5 ->                                        \* lines 161-169
              LET trade_entry ==
                      [time |-> IF Truthy(trade_time_ms)
                                THEN strftime(trade_time_ms.v)
                                ELSE strftime(c.now),
                       price |-> float(content.LAST_PRICE),
                       volume |-> int(content.LAST_SIZE),
                       aggressor |-> c.local[1]]
              IN IF Truthy(trade_time_ms) /\ ~IsNumber(trade_time_ms)
                 THEN Return(S, "error", <<>>)
                 ELSE Return([S EXCEPT !.trade_log[symbol] =
                                          DequeAppend(@, trade_entry)],
                             "ok", <<trade_entry>>)

Statement(task, c, S) ==
    CASE task = "quote" -> QuoteStatement(c, S)
      [] task = "depth" -> DepthStatement(c, S)
      [] task = "trade" -> TradeStatement(c, S)

\* display_bookmap_like_textual, lines 188-238: three statements read the
\* dicts, local is what they read; the rest logs it.
DisplayStatement(c, S) ==
    LET symbol == c.data
    IN CASE c.pc = 1 ->                                        \* line 188
              Goto([S EXCEPT !.current_bbo = AfterGet(@, symbol, EmptyBBO)], 2,
                   <<Get(S.current_bbo, symbol, EmptyBBO)>>)
         [] c.pc = 2 ->                                        \* line 189
              Goto([S EXCEPT !.order_book = AfterGet(@, symbol, EmptyBook)], 3,
                   Append(c.local, Get(S.order_book, symbol, EmptyBook)))
         [] c.pc = 3 ->                                        \* line 190
              Goto([S EXCEPT !.trade_log = AfterGet(@, symbol, <<>>)], 4,
                   Append(c.local, Get(S.trade_log, symbol, <<>>)))
         [] c.pc = 4 ->                                        \* lines 193-238
              LET r == DisplayResult(symbol, [s \in {symbol} |-> c.local[1]],
                                     [s \in {symbol} |-> c.local[2]],
                                     [s \in {symbol} |-> c.local[3]])
              IN Return(S, r.outcome, <<r.screen>>)

\* The coroutine may run: it has the turn, or the event loop has it, or the
\* coroutine that has it waits at an await.
MayRun(task) ==
    \/ turn = task
    \/ turn = "loop"
    \/ turn \in Tasks /\ Suspends(turn, co[turn].pc)

\* The stream calls the handler of a message (registered in lines 266-269).
call_handler(task, data, now) ==
    /\ calls < MaxCalls
    /\ co[task].pc = 0
    /\ MayRun(task)
    /\ co' = [co EXCEPT ![task] = [pc |-> 1, data |-> data, now |-> now,
                                   local |-> <<>>]]
    /\ turn' = task
    /\ UNCHANGED <<data_vars, task_vars, ingested, calls, last, committed,
                   limiter_vars>>

\* The handler in progress executes its next statement; after the last one
\* the turn is the event loop's.
handler_statement(task) ==
    LET c == co[task]
        r == Statement(task, c, Dicts)
    IN /\ c.pc # 0
       /\ MayRun(task)
       /\ current_bbo' = r.S.current_bbo
       /\ order_book' = r.S.order_book
       /\ trade_log' = r.S.trade_log
       /\ IF r.pc = 0
          THEN /\ co' = [co EXCEPT ![task] = Idle]
               /\ turn' = "loop"
               /\ calls' = calls + 1
               /\ last' = [op |-> task, data |-> c.data, outcome |-> r.outcome]
               /\ ingested' =
                     IF task = "trade" /\ r.outcome = "ok"
                     THEN [ingested EXCEPT
                              ![SymbolOf(ContentList(c.data)[1].key)] =
                                  Append(@, r.local[1])]
                     ELSE ingested
               /\ committed' = r.S
          ELSE /\ co' = [co EXCEPT ![task].pc = r.pc, ![task].local = r.local]
               /\ turn' = task
               /\ UNCHANGED <<calls, last, ingested, committed>>
       /\ UNCHANGED <<task_vars, limiter_vars>>

\* The display task calls display_bookmap_like_textual (line 243).
call_display ==
    /\ co["display"].pc = 0
    /\ MayRun("display")
    /\ co' = [co EXCEPT !["display"] = [pc |-> 1, data |-> ETF_SYMBOL, now |-> 0,
                                        local |-> <<>>]]
    /\ turn' = "display"
    /\ UNCHANGED <<data_vars, task_vars, ingested, calls, last, committed,
                   limiter_vars>>

\* The display in progress executes its next statement.
display_statement ==
    LET c == co["display"]
        r == DisplayStatement(c, Dicts)
    IN /\ c.pc # 0
       /\ MayRun("display")
       /\ current_bbo' = r.S.current_bbo
       /\ order_book' = r.S.order_book
       /\ trade_log' = r.S.trade_log
       /\ IF r.pc = 0
          THEN /\ co' = [co EXCEPT !["display"] = Idle]
               /\ turn' = "loop"
               /\ screen' = r.local[1]
               /\ last' = [op |-> "render", data |-> c.data, outcome |-> r.outcome]
          ELSE /\ co' = [co EXCEPT !["display"].pc = r.pc,
                                   !["display"].local = r.local]
               /\ turn' = "display"
               /\ UNCHANGED <<screen, last>>
       /\ UNCHANGED <<display_task, main_loop, cancel_at, ingested, calls,
                      committed, limiter_vars>>

\* The messages of the runs by statement: quotes of ETF_SYMBOL with numbers,
\* with no number and with no entry, a quote of the other symbol; snapshots
\* of ETF_SYMBOL, snapshots of the other symbol that are stored and that
\* fail after line 86, a message without content; trades that are logged
\* and one that is not.
StepQuoteMsgs ==
    {[has_content |-> TRUE, content |-> <<QuoteContent(ETF_SYMBOL, s, s)>>,
      timestamp |-> None] : s \in {<<Num(1), Num(1)>>, <<Bad, Num(1)>>}}
    \cup {OtherQuoteMsg, [has_content |-> TRUE, content |-> <<>>, timestamp |-> None]}

StepDepthMsgs ==
    {[key |-> key, content |-> [truthy |-> TRUE, bids |-> b, asks |-> <<OneLevel>>],
      timestamp |-> None] :
        key \in Symbols,
        b \in {<<>>, <<Level(Num(0), Num(1)), Level(Num(0), Num(MaxVolume))>>,
               <<Level(Bad, Num(1))>>}}
    \cup {[key |-> ETF_SYMBOL, content |-> NoContent, timestamp |-> None]}

StepTradeMsgs ==
    DisplayTradeMsgs
    \cup {OtherTradeMsg,
          [has_content |-> TRUE,
           content |-> <<TradeContent(ETF_SYMBOL, Bad, Num(1), Num(1))>>,
           timestamp |-> None]}

CallStep ==
    \E now \in ClockTimes :
        \/ \E data \in StepQuoteMsgs : call_handler("quote", data, now)
        \/ \E data \in StepDepthMsgs : call_handler("depth", data, now)
        \/ \E data \in StepTradeMsgs : call_handler("trade", data, now)

HandlerStep == \E task \in Tasks \ {"display"} : handler_statement(task)

NextSteps == CallStep \/ HandlerStep \/ call_display \/ display_statement

SpecSteps == Init /\ [][NextSteps]_vars

(***************************************************************************)
(* The request rate limiter of the IMF fetchers                            *)
(* (scripts/data_collection/IMF_data_fetcher.py, lines 16-36; the same     *)
(* code is in scripts/discovery/metadata_downloader.py, lines 17-37).      *)
(* Time is counted in whole seconds and time.time() does not go back; any  *)
(* number of calls can fall into one second.                               *)
(***************************************************************************)
\* [t for t in request_timestamps if at - t < TIME_WINDOW_SECONDS]
InWindow(timestamps, at) ==
    SelectSeq(timestamps, LAMBDA t : at - t < TIME_WINDOW_SECONDS)

\* The call never waits.
sleep_time_zero(current_time, timestamps) == 0

\* Line 29.
sleep_time(current_time, timestamps) ==
    TIME_WINDOW_SECONDS - (current_time - timestamps[1])

\* One call of check_rate_limit, from the reading of the clock in line 24 to
\* the append of line 35.  time.sleep returns after the time asked for or
\* later (oversleep), and line 35 reads the clock again (lag later than the
\* reading of lines 24 and 33).
check_rate_limit(oversleep, lag) ==
    LET current_time == clock
        kept == InWindow(request_timestamps, current_time)
        full == Len(kept) >= MAX_REQUESTS_PER_MINUTE
        wait == IF full THEN sleep_time(current_time, kept) ELSE 0
        slept == full /\ wait > 0
        woke == IF slept THEN current_time + wait + oversleep ELSE current_time
        kept_after == IF slept THEN InWindow(kept, woke) ELSE kept
        stamp == woke + lag
    IN /\ REQUEST_COUNT < MaxRequests
       /\ stamp <= MaxClock
       /\ ~slept => oversleep = 0
       /\ request_timestamps' = Append(kept_after, stamp)
       /\ REQUEST_COUNT' = REQUEST_COUNT + 1
       /\ clock' = stamp
       /\ issued' = Append(issued, stamp)
       /\ pause' = [at |-> current_time, held |-> Len(kept),
                    oldest |-> IF kept = <<>> THEN current_time ELSE kept[1],
                    slept |-> woke - current_time, stamp |-> stamp]
       /\ UNCHANGED <<data_vars, task_vars, ingested, calls, last, step_vars>>

\* make_imf_request, line 40: the limiter is called before the request.
make_imf_request ==
    \E oversleep \in 0..MaxOversleep, lag \in 0..MaxLag :
        check_rate_limit(oversleep, lag)

\* Time passes between two requests.
time_passes ==
    /\ clock < MaxClock
    /\ clock' = clock + 1
    /\ UNCHANGED <<data_vars, task_vars, ingested, calls, last, step_vars,
                   request_timestamps, REQUEST_COUNT, issued, pause>>

NextLimiter == make_imf_request \/ time_passes

SpecLimiter == Init /\ [][NextLimiter]_vars

(***************************************************************************)
(* What the properties below read of the last call.                        *)
(***************************************************************************)
\* The content entry the last quote or trade call read ({} when it found none).
LastContent ==
    IF ContentList(last.data) = <<>> THEN EmptyContent ELSE ContentList(last.data)[1]

\* The symbol the last message was for.
LastSymbol ==
    IF last.op = "depth" THEN SymbolOf(last.data.key) ELSE SymbolOf(LastContent.key)

LastIs(op, outcome) == last.op = op /\ last.outcome = outcome

\* The entry the last trade call appended, and the price of its message.
LastEntry == ingested[LastSymbol][Len(ingested[LastSymbol])]
LastTradePrice == float(LastContent.LAST_PRICE)

\* A stored price that is a number and compares so with p.
AtOrBelow(raw, p) == IsNumber(raw) /\ raw.v <= p
AtOrAbove(raw, p) == IsNumber(raw) /\ raw.v >= p

StrictlyDescending(od) == \A i \in 1..(Len(od) - 1) : od[i][1] > od[i + 1][1]
StrictlyAscending(od) == \A i \in 1..(Len(od) - 1) : od[i][1] < od[i + 1][1]

(***************************************************************************)
(* C1.  In every state, whatever quote, depth and trade messages came and  *)
(* in whatever order and duplication the levels of the snapshots were,     *)
(* the stored bids of every symbol iterate in strictly descending price    *)
(* order and the stored asks in strictly ascending price order.            *)
(***************************************************************************)
C1_BookSidesStrictlyOrdered ==
    \A s \in DOMAIN order_book :
        /\ StrictlyDescending(order_book[s].bids)
        /\ StrictlyAscending(order_book[s].asks)

\* A snapshot whose two bid levels came lowest first, and whose two ask
\* levels came highest first, has been stored.
C1_Witness_UnsortedSnapshotStored ==
    /\ LastIs("depth", "ok")
    /\ \/ /\ Len(last.data.content.bids) = 2
          /\ float(last.data.content.bids[1].price) < float(last.data.content.bids[2].price)
          /\ Len(order_book[LastSymbol].bids) = 2
       \/ /\ Len(last.data.content.asks) = 2
          /\ float(last.data.content.asks[1].price) > float(last.data.content.asks[2].price)
          /\ Len(order_book[LastSymbol].asks) = 2

(***************************************************************************)
(* C2.  As claimed: for a recorded trade at price P against a stored quote *)
(* with both prices present (numbers), the aggressor is BUY iff            *)
(* P >= ask_price, SELL iff P <= bid_price, and UNKNOWN otherwise.         *)
(***************************************************************************)
C2_Claimed_AggressorIffs ==
    (/\ LastIs("trade", "ok")
     /\ IsNumber(current_bbo[LastSymbol].bid_price)
     /\ IsNumber(current_bbo[LastSymbol].ask_price))
    => LET q == current_bbo[LastSymbol]
           P == LastTradePrice
       IN /\ LastEntry.aggressor = "BUY" <=> P >= q.ask_price.v
          /\ LastEntry.aggressor = "SELL" <=> P <= q.bid_price.v
          /\ LastEntry.aggressor = "UNKNOWN" <=> ~(P >= q.ask_price.v \/ P <= q.bid_price.v)

\* C2 as amended: for a recorded trade at price P against a stored quote with
\* both prices present, the aggressor is BUY iff P >= ask_price, SELL iff
\* P < ask_price and P <= bid_price, and UNKNOWN otherwise: BUY is tested
\* first, so a trade at a crossed or locked quote (bid_price >= ask_price)
\* that is at or above the ask and at or below the bid is BUY, never SELL.
C2_AggressorByPriority ==
    (/\ LastIs("trade", "ok")
     /\ ~IsNone(current_bbo[LastSymbol].bid_price)
     /\ ~IsNone(current_bbo[LastSymbol].ask_price))
    => LET q == current_bbo[LastSymbol]
           P == LastTradePrice
           buy == AtOrBelow(q.ask_price, P)
           sell == ~buy /\ AtOrAbove(q.bid_price, P)
       IN /\ LastEntry.aggressor = "BUY" <=> buy
          /\ LastEntry.aggressor = "SELL" <=> sell
          /\ LastEntry.aggressor = "UNKNOWN" <=> ~buy /\ ~sell

\* A trade at the bid of an uncrossed quote was recorded as SELL.
C2_Witness_SellAtBid ==
    /\ LastIs("trade", "ok")
    /\ IsNumber(current_bbo[LastSymbol].bid_price)
    /\ IsNumber(current_bbo[LastSymbol].ask_price)
    /\ current_bbo[LastSymbol].bid_price.v < current_bbo[LastSymbol].ask_price.v
    /\ LastTradePrice = current_bbo[LastSymbol].bid_price.v
    /\ LastEntry.aggressor = "SELL"

(***************************************************************************)
(* C3.  A trade ingested while bid_price or ask_price of its symbol is     *)
(* absent is recorded with aggressor UNKNOWN, whatever its price; so is    *)
(* the trade of a symbol never seen before.                                *)
(***************************************************************************)
C3_UnknownWithoutBothSides ==
    (/\ last.op = "trade"
     /\ LastSymbol \in DOMAIN current_bbo
     /\ \/ IsNone(current_bbo[LastSymbol].bid_price)
        \/ IsNone(current_bbo[LastSymbol].ask_price)
     /\ ContentList(last.data) # <<>>
     /\ Parses(LastContent.LAST_PRICE)
     /\ Parses(LastContent.LAST_SIZE)
     /\ (IsNumber(LastContent.TRADE_TIME) \/ IsNone(LastContent.TRADE_TIME)))
    => /\ last.outcome = "ok"
       /\ trade_log[LastSymbol] # <<>>
       /\ trade_log[LastSymbol][Len(trade_log[LastSymbol])].aggressor = "UNKNOWN"
       /\ trade_log[LastSymbol][Len(trade_log[LastSymbol])].price = LastTradePrice

\* A trade at the ask was recorded while only the ask side was stored.
C3_Witness_TradeAtAskOneSided ==
    /\ LastIs("trade", "ok")
    /\ IsNone(current_bbo[LastSymbol].bid_price)
    /\ IsNumber(current_bbo[LastSymbol].ask_price)
    /\ LastTradePrice >= current_bbo[LastSymbol].ask_price.v
    /\ LastEntry.aggressor = "UNKNOWN"

(***************************************************************************)
(* C4.  The trade log of a symbol never holds more than 100 entries, and   *)
(* after n ingested trades it holds the last min(n, 100) of them, oldest   *)
(* first: appending to a full log evicts exactly the oldest entry.         *)
(***************************************************************************)
C4_LogIsLastHundred ==
    \A s \in DOMAIN trade_log :
        /\ Len(trade_log[s]) <= 100
        /\ trade_log[s] = LastN(ingested[s], Min(Len(ingested[s]), 100))

\* More than 100 trades went into one log, which is full.
C4_Witness_FullLogAfterEviction ==
    /\ Len(ingested[ETF_SYMBOL]) > 100
    /\ Len(trade_log[ETF_SYMBOL]) = 100
    /\ trade_log[ETF_SYMBOL][1] # ingested[ETF_SYMBOL][1]

(***************************************************************************)
(* What the properties below read of a depth snapshot.                     *)
(***************************************************************************)
\* The places of a raw list whose entry has a price and a size.
Complete(raw) ==
    {i \in 1..Len(raw) : ~IsNone(raw[i].price) /\ ~IsNone(raw[i].totalVolume)}
\* ... and whose entry has both as numbers or numeric strings.
WellFormed(raw) ==
    {i \in Complete(raw) : Parses(raw[i].price) /\ Parses(raw[i].totalVolume)}
\* The places that give a price its size: the last complete entry of each price.
Deciding(raw) ==
    {i \in Complete(raw) :
        \A j \in Complete(raw) : j > i => float(raw[j].price) # float(raw[i].price)}
LevelAt(raw, i) == <<float(raw[i].price), int(raw[i].totalVolume)>>
Items(od) == {od[i] : i \in 1..Len(od)}

\* Every price and size of the stored quote q is a number or absent.
NumbersOrAbsent(q) ==
    \A x \in {q.bid_price, q.bid_size, q.ask_price, q.ask_size} : IsNumber(x) \/ IsNone(x)

LastBids == last.data.content.bids
LastAsks == last.data.content.asks
Ingested == LastIs("depth", "ok")

(***************************************************************************)
(* C5.  As claimed: a quote message that carries only bid fields leaves    *)
(* the stored ask_price and ask_size of its symbol as they were, and a     *)
(* message that carries only ask fields leaves bid_price and bid_size      *)
(* (read on quotes whose prices and sizes are numbers).                    *)
(***************************************************************************)
C5_Claimed_AbsentSideKept ==
    [][(/\ last'.op = "quote"
        /\ last'.outcome = "ok"
        /\ LastSymbol' \in DOMAIN current_bbo
        /\ NumbersOrAbsent(current_bbo[LastSymbol'])
        /\ NumbersOrAbsent(current_bbo'[LastSymbol']))
       => LET c == LastContent'
              before == current_bbo[LastSymbol']
              after == current_bbo'[LastSymbol']
          IN /\ (IsNone(c.ASK_PRICE) /\ IsNone(c.ASK_SIZE) /\ ~IsNone(c.BID_PRICE))
                    => (after.ask_price = before.ask_price
                        /\ after.ask_size = before.ask_size)
             /\ (IsNone(c.BID_PRICE) /\ IsNone(c.BID_SIZE) /\ ~IsNone(c.ASK_PRICE))
                    => (after.bid_price = before.bid_price
                        /\ after.bid_size = before.bid_size)]_vars

(***************************************************************************)
(* C6.  As claimed: after a depth snapshot with a non-empty bid list and a *)
(* non-empty ask list is ingested, bid_price is the highest bid price of   *)
(* the snapshot and bid_size the size stored at that level, ask_price the  *)
(* lowest ask price and ask_size the size stored at it, and the timestamp  *)
(* is the one of the message.                                              *)
(***************************************************************************)
\* price is the best of the prices that the entries of raw at the places in
\* `among` carry, it is a level of the stored side, and size is stored there.
BestOf(raw, among, stored, price, size, highest) ==
    /\ IsNumber(price)
    /\ \E i \in among : Parses(raw[i].price) /\ float(raw[i].price) = price.v
    /\ \A i \in among :
          Parses(raw[i].price)
             => IF highest THEN float(raw[i].price) <= price.v
                           ELSE float(raw[i].price) >= price.v
    /\ price.v \in Prices(stored)
    /\ size = Num(GetItem(stored, price.v))

SideIs(stored, raw) ==
    /\ Items(stored) = {LevelAt(raw, i) : i \in Deciding(raw)}
    /\ Len(stored) = Cardinality(Deciding(raw))

C8_BookIsTheSnapshot ==
    Ingested
    => /\ SideIs(order_book[LastSymbol].bids, LastBids)
       /\ SideIs(order_book[LastSymbol].asks, LastAsks)

\* The third call of a run ingested a snapshot with no bids and two asks.
C8_Witness_OneSideEmptied ==
    /\ Ingested
    /\ calls = MaxCalls
    /\ LastBids = <<>>
    /\ order_book[LastSymbol].bids = <<>>
    /\ Len(order_book[LastSymbol].asks) = 2

(***************************************************************************)
(* C9.  A depth snapshot whose entries, where they have a price and a      *)
(* size, have them as numbers is ingested, not dropped, also when other    *)
(* entries lack the price or the size: those are left out of the book and  *)
(* every other entry of the message is stored.                             *)
(***************************************************************************)
C9_IncompleteEntriesSkipped ==
    (/\ last.op = "depth"
     /\ last.data.content.truthy
     /\ WellFormed(LastBids) = Complete(LastBids)
     /\ WellFormed(LastAsks) = Complete(LastAsks))
    => /\ last.outcome = "ok"
       /\ Prices(order_book[LastSymbol].bids)
            = {float(LastBids[i].price) : i \in Complete(LastBids)}
       /\ Prices(order_book[LastSymbol].asks)
            = {float(LastAsks[i].price) : i \in Complete(LastAsks)}

\* A snapshot with an entry that lacks a field next to a complete one was
\* ingested, and the complete one is in the book.
C9_Witness_SkippedNextToStored ==
    /\ Ingested
    /\ \/ /\ Len(LastBids) = 2 /\ Cardinality(Complete(LastBids)) = 1
          /\ Len(order_book[LastSymbol].bids) = 1
       \/ /\ Len(LastAsks) = 2 /\ Cardinality(Complete(LastAsks)) = 1
          /\ Len(order_book[LastSymbol].asks) = 1

(***************************************************************************)
(* C10.  As claimed: a depth snapshot with content in which a level has a  *)
(* price or a size that is no number is not dropped: that level is         *)
(* skipped, the well-formed levels replace the book and the BBO takes the  *)
(* best of them.                                                           *)
(***************************************************************************)
C10_Claimed_UnparsableLevelSkipped ==
    (/\ last.op = "depth"
     /\ last.data.content.truthy
     /\ \/ WellFormed(LastBids) # Complete(LastBids)
        \/ WellFormed(LastAsks) # Complete(LastAsks))
    => /\ last.outcome = "ok"
       /\ Prices(order_book[LastSymbol].bids)
            = {float(LastBids[i].price) : i \in WellFormed(LastBids)}
       /\ Prices(order_book[LastSymbol].asks)
            = {float(LastAsks[i].price) : i \in WellFormed(LastAsks)}
       /\ WellFormed(LastBids) # {}
            => BestOf(LastBids, WellFormed(LastBids), order_book[LastSymbol].bids,
                      current_bbo[LastSymbol].bid_price,
                      current_bbo[LastSymbol].bid_size, TRUE)
       /\ WellFormed(LastAsks) # {}
            => BestOf(LastAsks, WellFormed(LastAsks), order_book[LastSymbol].asks,
                      current_bbo[LastSymbol].ask_price,
                      current_bbo[LastSymbol].ask_size, FALSE)

(***************************************************************************)
(* What the properties below read of the state of one symbol: a symbol     *)
(* without an entry in a dict reads as one with an empty entry.            *)
(***************************************************************************)
StateOf(s, cbbo, obook, tlog) ==
    [quote |-> Get(cbbo, s, EmptyBBO), book |-> Get(obook, s, EmptyBook),
     log |-> Get(tlog, s, <<>>)]
Now(s) == StateOf(s, current_bbo, order_book, trade_log)
\* The prices and sizes of a stored quote, without its timestamp.
PricesAndSizes(q) == <<q.bid_price, q.bid_size, q.ask_price, q.ask_size>>
HandlerOps == {"quote", "depth", "trade"}

(***************************************************************************)
(* C11.  As claimed: every call of the quote, depth and trade handler      *)
(* returns without raising, whatever the message, and a message that fails *)
(* to parse and is dropped leaves the BestQuote, the DepthBook and the     *)
(* TradeLog of every symbol as they were before the call (read on the      *)
(* prices and sizes of the BestQuote, its timestamp left aside).           *)
(***************************************************************************)
C11_Claimed_DroppedMessageChangesNothing ==
    [][last'.op \in HandlerOps /\ calls' = calls + 1
       => /\ last'.outcome \in {"ok", "nocontent", "error"}
          /\ last'.outcome = "error"
                => \A s \in Symbols :
                      /\ PricesAndSizes(Now(s).quote)' = PricesAndSizes(Now(s).quote)
                      /\ Now(s).book' = Now(s).book
                      /\ Now(s).log' = Now(s).log]_vars

(***************************************************************************)
(* C12.  As claimed: whatever malformed messages came before (a quote with *)
(* prices that are not numbers among them), a well-formed trade message is *)
(* appended to the TradeLog of its symbol, and a well-formed quote or      *)
(* depth message is applied.                                               *)
(***************************************************************************)
WellFormedTrade(c) ==
    /\ IsNumber(c.LAST_PRICE)
    /\ IsNumber(c.LAST_SIZE)
    /\ IsNumber(c.TRADE_TIME) \/ IsNone(c.TRADE_TIME)

C12_Claimed_LaterMessagesStillApplied ==
    /\ (last.op = "trade" /\ ContentList(last.data) # <<>> /\ WellFormedTrade(LastContent))
        => /\ last.outcome = "ok"
           /\ Now(LastSymbol).log # <<>>
           /\ Now(LastSymbol).log[Len(Now(LastSymbol).log)].price = LastTradePrice
    /\ (last.op = "quote" /\ ContentList(last.data) # <<>>)
        => /\ last.outcome = "ok"
           /\ Now(LastSymbol).quote.bid_price = LastContent.BID_PRICE
           /\ Now(LastSymbol).quote.ask_price = LastContent.ASK_PRICE
    /\ (/\ last.op = "depth"
        /\ last.data.content.truthy
        /\ WellFormed(LastBids) = DOMAIN LastBids
        /\ WellFormed(LastAsks) = DOMAIN LastAsks)
        => last.outcome = "ok"

(***************************************************************************)
(* C13.  The aggressor of the record that an ingested trade message adds   *)
(* is the classification of the trade price against the BestQuote that was *)
(* stored for the symbol when the message came (all absent for a symbol    *)
(* without one), so after a quote or depth message against the new quote;  *)
(* and no call changes a record of a TradeLog: each log is after a call    *)
(* what it was before, or that with one record added at the end and, when  *)
(* it was full, its oldest record dropped.                                 *)
(***************************************************************************)
\* The rule of the Trade Classifier: BUY at or above the ask, else SELL at or
\* below the bid, UNKNOWN between them and whenever a side is absent.
Classify(P, q) ==
    IF IsNone(q.bid_price) \/ IsNone(q.ask_price) THEN "UNKNOWN"
    ELSE IF AtOrBelow(q.ask_price, P) THEN "BUY"
    ELSE IF AtOrAbove(q.bid_price, P) THEN "SELL"
    ELSE "UNKNOWN"

Front(seq) == SubSeq(seq, 1, Len(seq) - 1)

C13_ClassifiedAtIngestionThenKept ==
    [][/\ (last'.op = "trade" /\ last'.outcome = "ok" /\ calls' = calls + 1)
            => LET s == LastSymbol'
                   added == trade_log'[s][Len(trade_log'[s])]
               IN /\ added.aggressor = Classify(LastTradePrice', Now(s).quote)
                  /\ added.price = LastTradePrice'
                  /\ Front(trade_log'[s]) = Now(s).log
       /\ \A s \in DOMAIN trade_log :
             /\ s \in DOMAIN trade_log'
             /\ \/ trade_log'[s] = trade_log[s]
                \/ /\ trade_log'[s] # <<>>
                   /\ \/ Front(trade_log'[s]) = trade_log[s]
                      \/ /\ Len(trade_log[s]) = TRADE_LOG_MAXLEN
                         /\ Front(trade_log'[s]) = Tail(trade_log[s])]_vars

\* Two trades at one price are in a log with different aggressors: the quote
\* changed between them and the first record stayed as it was.
C13_Witness_SamePriceTwoAggressors ==
    /\ LastIs("trade", "ok")
    /\ Len(trade_log[LastSymbol]) = 2
    /\ trade_log[LastSymbol][1].price = trade_log[LastSymbol][2].price
    /\ trade_log[LastSymbol][1].aggressor = "UNKNOWN"
    /\ trade_log[LastSymbol][2].aggressor \in {"BUY", "SELL"}

(***************************************************************************)
(* C14.  As claimed: from every state, ingesting a quote message and a     *)
(* depth message for the same symbol in either order gives the same prices *)
(* and sizes of the BestQuote and the same DepthBook of every symbol (no   *)
(* TradeLog is written by either).  Read in the states from which a run    *)
(* has two calls left.                                                     *)
(***************************************************************************)
SameSymbolPairs ==
    {p \in QuoteMsgs \X DepthMsgs :
        /\ ContentList(p[1]) # <<>>
        /\ SymbolOf(ContentList(p[1])[1].key) = SymbolOf(p[2].key)}

\* The dicts after the quote message q and then the depth message d, and
\* after d and then q, from the present state.
QuoteThenDepth(q, d, now) ==
    LevelTwoResult(d, order_book, LevelOneResult(q, current_bbo, now).current_bbo, now)
DepthThenQuote(q, d, now) ==
    LET a == LevelTwoResult(d, order_book, current_bbo, now)
    IN [order_book |-> a.order_book,
        current_bbo |-> LevelOneResult(q, a.current_bbo, now).current_bbo,
        outcome |-> a.outcome]

SameBooks(a, b) ==
    \A s \in Symbols : Get(a.order_book, s, EmptyBook) = Get(b.order_book, s, EmptyBook)

BestIsTopOfBook(quote, book) ==
    /\ book.bids # <<>>
          => /\ quote.bid_price = Num(book.bids[1][1])
             /\ quote.bid_size = Num(book.bids[1][2])
    /\ book.asks # <<>>
          => /\ quote.ask_price = Num(book.asks[1][1])
             /\ quote.ask_size = Num(book.asks[1][2])

Rendered == last.op = "render"
Shown == Now(last.data)
HasSection(name) == \E i \in 1..Len(screen.sections) : screen.sections[i] = name

(***************************************************************************)
(* C16.  As claimed: every render for a symbol whose ask book is empty     *)
(* writes the no-ask-data line in the ASKS section, and for one whose bid  *)
(* book is empty the no-bid-data line in the BIDS section; neither line is *)
(* written for a side that has a level.                                    *)
(***************************************************************************)
C16_Claimed_PlaceholderForEmptySide ==
    Rendered
    => /\ Shown.book.asks = <<>> => (HasSection("ASKS") /\ screen.no_asks)
       /\ Shown.book.asks # <<>> => ~screen.no_asks
       /\ Shown.book.bids = <<>> => (HasSection("BIDS") /\ screen.no_bids)
       /\ Shown.book.bids # <<>> => ~screen.no_bids

(***************************************************************************)
(* C17.  As claimed: every render shows the first min(n, 10) levels of the *)
(* stored ask book and of the stored bid book in their stored order, and   *)
(* the last min(n, 10) records of the TradeLog, the most recent first.     *)
(***************************************************************************)
ShowsLevels(lines, od) ==
    /\ Len(lines) = Min(Len(od), 10)
    /\ \A i \in 1..Len(lines) :
          lines[i].price = od[i][1] /\ lines[i].volume = od[i][2]

ShowsTrades(lines, log) ==
    /\ Len(lines) = Min(Len(log), 10)
    /\ \A i \in 1..Len(lines) :
          LET record == log[Len(log) - i + 1]
          IN /\ lines[i].time = record.time
             /\ lines[i].price = record.price
             /\ lines[i].volume = record.volume
             /\ lines[i].aggressor = record.aggressor

C17_Claimed_TopLevelsAndLastTrades ==
    Rendered
    => /\ ShowsLevels(screen.asks, Shown.book.asks)
       /\ ShowsLevels(screen.bids, Shown.book.bids)
       /\ ShowsTrades(screen.trades, Shown.log)

(***************************************************************************)
(* C18.  As claimed: a render shows best bid, best ask and the spread      *)
(* ask_price - bid_price whenever both prices of the BestQuote are         *)
(* present, whatever their value, and the not-available line exactly when  *)
(* one of the two is absent (read on quotes whose prices and sizes are     *)
(* numbers).                                                               *)
(***************************************************************************)
C18_Claimed_SpreadWheneverBothPresent ==
    (Rendered /\ NumbersOrAbsent(Shown.quote))
    => LET q == Shown.quote
           both == ~IsNone(q.bid_price) /\ ~IsNone(q.ask_price)
       IN /\ both => /\ screen.spread.kind = "spread"
                     /\ screen.spread.bid = q.bid_price
                     /\ screen.spread.ask = q.ask_price
                     /\ screen.spread.spread = q.ask_price.v - q.bid_price.v
          /\ screen.spread.kind = "not available" <=> ~both

(***************************************************************************)
(* C19.  As claimed: whatever the handlers have stored, the display task,  *)
(* once started, is in its cycle of render and sleep and leaves it only by *)
(* being cancelled from outside.                                           *)
(***************************************************************************)
C19_Claimed_EndsOnlyByCancellation ==
    display_task.pc # "none"
    => \/ display_task.pc \in {"start", "render", "sleep"}
       \/ display_task.pc = "cancelled" /\ main_loop.pc \in {"await", "stopped"}

(***************************************************************************)
(* C20.  The cancellation of the display task takes effect only where the  *)
(* task waits: the task becomes cancelled from its sleep (or before its    *)
(* first step) after line 306 asked for it, whenever the interrupt came;   *)
(* a render that has started is never ended by the cancellation, it ends   *)
(* in the render call itself; and a cancelled task renders nothing more.   *)
(***************************************************************************)
C20_CancelledOnlyBetweenTicks ==
    [][/\ display_task.pc = "render"
            => /\ display_task'.pc \in {"render", "sleep", "failed"}
               /\ display_task'.pc # "render" => last'.op = "render"
       /\ (display_task'.pc = "cancelled" /\ display_task.pc # "cancelled")
            => /\ display_task.pc \in {"start", "sleep"}
               /\ display_task.must_cancel
               /\ screen' = screen
       /\ display_task.pc = "cancelled"
            => /\ display_task' = display_task
               /\ screen' = screen]_vars

\* The interrupt came in the middle of a render; the render wrote its four
\* sections and the task was cancelled from the sleep after it.
C20_Witness_InterruptedInRender ==
    /\ display_task.pc = "cancelled"
    /\ cancel_at = "render"
    /\ last.op = "render"
    /\ last.outcome = "ok"
    /\ Len(screen.sections) = 4
    /\ main_loop.pc = "stopped"

(***************************************************************************)
(* C21.  As claimed: every shutdown of main_streaming_loop after the       *)
(* stream was started requests the stream to stop, whatever the display    *)
(* task did before, and requests it after the display task has ended:      *)
(* once the main coroutine is past "await display_task" the stream has     *)
(* been stopped, and a stopped stream comes with an ended display task.    *)
(***************************************************************************)
C21_Claimed_StreamStopAlwaysRequested ==
    /\ main_loop.pc \in {"stopped", "failed"} => main_loop.stream = "stopped"
    /\ main_loop.stream = "stopped" => Done(display_task.pc)

(***************************************************************************)
(* What the frame properties below read of one step: the symbol of the     *)
(* message the step ingested, and the keys and entries of a dict that the  *)
(* step left as they were.                                                  *)
(***************************************************************************)
AllAbsent(q) ==
    /\ IsNone(q.bid_price) /\ IsNone(q.bid_size)
    /\ IsNone(q.ask_price) /\ IsNone(q.ask_size) /\ IsNone(q.timestamp)
\* Every entry that dict old had is in dict new with the same value.
Kept(old, new) ==
    /\ DOMAIN old \subseteq DOMAIN new
    /\ \A s \in DOMAIN old : new[s] = old[s]
\* The logs that differ between two trade_log dicts, a log that is new and
\* empty not counted.
LogsChanged(old, new) ==
    {s \in DOMAIN new : new[s] # Get(old, s, <<>>)}

(***************************************************************************)
(* C23.  Each handler writes its own part of the state only.  A quote call *)
(* leaves order_book and trade_log as they were; a depth call leaves       *)
(* trade_log as it was; a trade call leaves order_book as it was and every *)
(* stored quote as it was, a quote entry it creates has all five fields    *)
(* absent, and at most one log gets at most one record more.               *)
(***************************************************************************)
C23_EachHandlerWritesItsOwnPart ==
    [][/\ last'.op = "quote" => order_book' = order_book /\ trade_log' = trade_log
       /\ last'.op = "depth" => trade_log' = trade_log
       /\ last'.op = "trade" =>
            /\ order_book' = order_book
            /\ Kept(current_bbo, current_bbo')
            /\ \A s \in (DOMAIN current_bbo') \ (DOMAIN current_bbo) :
                   AllAbsent(current_bbo'[s])
            /\ DOMAIN trade_log \subseteq DOMAIN trade_log'
            /\ Cardinality(LogsChanged(trade_log, trade_log')) <= 1
            /\ \A s \in LogsChanged(trade_log, trade_log') :
                   /\ Len(trade_log'[s]) = Len(Get(trade_log, s, <<>>)) + 1
                   /\ Front(trade_log'[s]) = Get(trade_log, s, <<>>)]_vars

\* A trade of the other symbol was logged next to a stored quote, a stored
\* book and a logged trade of ETF_SYMBOL: the call created the other
\* symbol's quote entry, all absent, and its log of one record.
C23_Witness_TradeOfNewSymbol ==
    /\ LastIs("trade", "ok")
    /\ LastSymbol = OTHER_SYMBOL
    /\ AllAbsent(current_bbo[OTHER_SYMBOL])
    /\ Len(trade_log[OTHER_SYMBOL]) = 1
    /\ OTHER_SYMBOL \notin DOMAIN order_book
    /\ IsNumber(current_bbo[ETF_SYMBOL].bid_price)
    /\ order_book[ETF_SYMBOL].asks # <<>>

\* Symbol b has in dict new the entry it had in dict old, or none in both.
SameEntry(old, new, b) ==
    /\ (b \in DOMAIN new) = (b \in DOMAIN old)
    /\ b \in DOMAIN old => new[b] = old[b]

(***************************************************************************)
(* C24.  The state is kept apart per symbol.  A quote, depth or trade call *)
(* for symbol a leaves the quote, the book and the log of every other      *)
(* symbol b as they were (and creates none for b); and a message for a     *)
(* symbol that has no entry yet is handled as any other: a quote with a    *)
(* content entry, a depth snapshot whose levels parse and a trade whose    *)
(* price, size and time are numbers end well and leave an entry for that   *)
(* symbol, the log of a symbol without log and quote holding the one trade.*)
(***************************************************************************)
C24_StateIsPerSymbol ==
    [][last'.op \in HandlerOps
       => LET a == LastSymbol'
              data == last'.data
          IN /\ \A b \in Symbols \ {a} :
                    /\ SameEntry(current_bbo, current_bbo', b)
                    /\ SameEntry(order_book, order_book', b)
                    /\ SameEntry(trade_log, trade_log', b)
             /\ (last'.op = "quote" /\ ContentList(data) # <<>>
                    /\ a \notin DOMAIN current_bbo)
                  => /\ last'.outcome = "ok"
                     /\ a \in DOMAIN current_bbo'
             /\ (last'.op = "depth" /\ data.content.truthy
                    /\ WellFormed(data.content.bids) = Complete(data.content.bids)
                    /\ WellFormed(data.content.asks) = Complete(data.content.asks)
                    /\ a \notin DOMAIN order_book)
                  => /\ last'.outcome = "ok"
                     /\ a \in DOMAIN order_book'
                     /\ a \in DOMAIN current_bbo'
             /\ (last'.op = "trade" /\ ContentList(data) # <<>>
                    /\ WellFormedTrade(LastContent')
                    /\ a \notin DOMAIN trade_log
                    /\ a \notin DOMAIN current_bbo)
                  => /\ last'.outcome = "ok"
                     /\ a \in DOMAIN trade_log'
                     /\ Len(trade_log'[a]) = 1
                     /\ a \in DOMAIN current_bbo']_vars

\* The first snapshot of the other symbol was stored next to a book, a quote
\* and a logged trade of ETF_SYMBOL, which differ from it.
C24_Witness_SecondSymbolBesideFirst ==
    /\ LastIs("depth", "ok")
    /\ LastSymbol = OTHER_SYMBOL
    /\ order_book[OTHER_SYMBOL].bids # <<>>
    /\ order_book[ETF_SYMBOL].asks # <<>>
    /\ order_book[ETF_SYMBOL] # order_book[OTHER_SYMBOL]
    /\ current_bbo[ETF_SYMBOL] # current_bbo[OTHER_SYMBOL]
    /\ Len(trade_log[ETF_SYMBOL]) = 1
    /\ OTHER_SYMBOL \notin DOMAIN trade_log

(***************************************************************************)
(* C25.  A call of display_bookmap_like_textual writes none of the three   *)
(* dicts: after it current_bbo, order_book and trade_log have the keys and *)
(* the values they had before, whether the symbol it was called for has    *)
(* an entry in them or not.                                                *)
(***************************************************************************)
C25_RenderIsReadOnly ==
    [][(last'.op = "render" /\ calls' = calls)
       => /\ DOMAIN current_bbo' = DOMAIN current_bbo
          /\ DOMAIN order_book' = DOMAIN order_book
          /\ DOMAIN trade_log' = DOMAIN trade_log
          /\ data_vars' = data_vars]_vars

\* The display was called for a symbol without entry in any dict, after
\* messages of ETF_SYMBOL were stored: it wrote the placeholders of the empty
\* sections and the symbol still has no entry.
C25_Witness_RenderOfUnknownSymbol ==
    /\ last.op = "render"
    /\ last.data = OTHER_SYMBOL
    /\ last.outcome = "ok"
    /\ screen.no_asks /\ screen.no_bids /\ screen.no_trades
    /\ OTHER_SYMBOL \notin DOMAIN current_bbo
    /\ OTHER_SYMBOL \notin DOMAIN order_book
    /\ OTHER_SYMBOL \notin DOMAIN trade_log
    /\ order_book[ETF_SYMBOL].bids # <<>>
    /\ trade_log[ETF_SYMBOL] # <<>>

C27_NoContentIsNoOp ==
    [][(last'.op = "depth" /\ ~last'.data.content.truthy)
       => /\ last'.outcome = "nocontent"
          /\ DOMAIN current_bbo' = DOMAIN current_bbo
          /\ DOMAIN order_book' = DOMAIN order_book
          /\ DOMAIN trade_log' = DOMAIN trade_log
          /\ data_vars' = data_vars]_vars

\* A depth message without content came for the other symbol, which has a
\* stored quote and no book, next to a stored book of ETF_SYMBOL: the quote
\* is still there and the symbol still has no book.
C27_Witness_NoContentForBooklessSymbol ==
    /\ LastIs("depth", "nocontent")
    /\ LastSymbol = OTHER_SYMBOL
    /\ OTHER_SYMBOL \notin DOMAIN order_book
    /\ OTHER_SYMBOL \in DOMAIN current_bbo
    /\ IsNumber(current_bbo[OTHER_SYMBOL].ask_price)
    /\ IsNumber(current_bbo[OTHER_SYMBOL].timestamp)
    /\ order_book[ETF_SYMBOL].asks # <<>>

\* The message data cut to its first content entry.
FirstEntryOnly(data) == [data EXCEPT !.content = <<data.content[1]>>]

(***************************************************************************)
(* C28.  A quote or trade message is applied from its first content entry  *)
(* only.  A call with a message of one or more entries leaves the state    *)
(* that the same call with the first entry alone leaves, and ends as it    *)
(* ends; a trade call adds at most one record, to at most one log; and a   *)
(* call with an empty content list changes none of the three dicts.        *)
(***************************************************************************)
C28_FirstContentEntryOnly ==
    [][(last'.op \in {"quote", "trade"} /\ last'.data.has_content)
       => LET data == last'.data
          IN /\ data.content = <<>>
                  => /\ data_vars' = data_vars
                     /\ last'.outcome = "error"
             /\ (data.content # <<>> /\ last'.op = "quote")
                  => \E now \in ClockTimes :
                        LET r == LevelOneResult(FirstEntryOnly(data), current_bbo, now)
                        IN /\ current_bbo' = r.current_bbo
                           /\ last'.outcome = r.outcome
                           /\ order_book' = order_book /\ trade_log' = trade_log
             /\ (data.content # <<>> /\ last'.op = "trade")
                  => \E now \in ClockTimes :
                        LET r == TimesaleResult(FirstEntryOnly(data), trade_log,
                                                current_bbo, now)
                        IN /\ trade_log' = r.trade_log
                           /\ current_bbo' = r.current_bbo
                           /\ last'.outcome = r.outcome
                           /\ order_book' = order_book
             /\ last'.op = "trade"
                  => /\ Cardinality(LogsChanged(trade_log, trade_log')) <= 1
                     /\ \A s \in DOMAIN trade_log' :
                            Len(trade_log'[s]) <= Len(Get(trade_log, s, <<>>)) + 1]_vars

\* A trade message of two entries, the second one of the other symbol, was
\* ingested: the log of ETF_SYMBOL has the trade of the first entry and the
\* other symbol has no log.
C28_Witness_SecondEntryNotLogged ==
    /\ LastIs("trade", "ok")
    /\ Len(last.data.content) = 2
    /\ last.data.content[2].key = OTHER_SYMBOL
    /\ last.data.content[2].LAST_PRICE # last.data.content[1].LAST_PRICE
    /\ OTHER_SYMBOL \notin DOMAIN trade_log
    /\ Len(trade_log[ETF_SYMBOL]) = 1
    /\ trade_log[ETF_SYMBOL][1].price = float(last.data.content[1].LAST_PRICE)

\* The places of the raw list whose entry has the price p, and the size of
\* the last of them.
PlacesOf(raw, p) == {i \in Complete(raw) : float(raw[i].price) = p}
LastSizeOf(raw, p) ==
    LET i == CHOOSE j \in PlacesOf(raw, p) : \A k \in PlacesOf(raw, p) : k <= j
    IN int(raw[i].totalVolume)
\* The stored side od has one level for each price of the raw list, with the
\* size of the last entry of that price.
OneLevelPerPrice(od, raw) ==
    \A i \in Complete(raw) :
        LET p == float(raw[i].price)
        IN /\ Cardinality({k \in 1..Len(od) : od[k][1] = p}) = 1
           /\ GetItem(od, p) = LastSizeOf(raw, p)

(***************************************************************************)
(* C29.  After a depth snapshot is ingested, a price that the message      *)
(* lists more than once on a side has one level on that side of the stored *)
(* book, and its size is the size of the last entry of that price in the   *)
(* message, not the sum of the sizes; the size of the stored quote on that *)
(* side is the last size listed for the best price.                        *)
(***************************************************************************)
C29_DuplicatePriceLastSizeWins ==
    Ingested
    => LET book == order_book[LastSymbol]
           q == current_bbo[LastSymbol]
       IN /\ OneLevelPerPrice(book.bids, LastBids)
          /\ OneLevelPerPrice(book.asks, LastAsks)
          /\ book.bids # <<>>
                => q.bid_size = Num(LastSizeOf(LastBids, book.bids[1][1]))
          /\ book.asks # <<>>
                => q.ask_size = Num(LastSizeOf(LastAsks, book.asks[1][1]))

\* A snapshot that lists one bid price twice, with two sizes, was ingested:
\* the book has the one level with the second size, and so has the quote.
C29_Witness_SamePriceTwice ==
    /\ Ingested
    /\ Len(LastBids) = 2
    /\ LastBids[1].price = LastBids[2].price
    /\ LastBids[1].totalVolume # LastBids[2].totalVolume
    /\ Len(order_book[LastSymbol].bids) = 1
    /\ order_book[LastSymbol].bids[1][2] = int(LastBids[2].totalVolume)
    /\ current_bbo[LastSymbol].bid_size = LastBids[2].totalVolume

\* The requests recorded in the TIME_WINDOW_SECONDS that end at time t:
\* those at a time after t - TIME_WINDOW_SECONDS and not after t.
RecordedInWindow(t) ==
    {i \in 1..Len(issued) : t - TIME_WINDOW_SECONDS < issued[i] /\ issued[i] <= t}

(***************************************************************************)
(* C30.  Whatever the times of the calls of check_rate_limit, no window of *)
(* TIME_WINDOW_SECONDS holds more than MAX_REQUESTS_PER_MINUTE of the      *)
(* timestamps the calls recorded; request_timestamps has at most           *)
(* MAX_REQUESTS_PER_MINUTE entries after a call; and a call that found     *)
(* MAX_REQUESTS_PER_MINUTE timestamps in the window paused, at least until *)
(* the oldest of them was TIME_WINDOW_SECONDS old, before it recorded its  *)
(* own.                                                                    *)
(***************************************************************************)
C30_AtMostMaxRequestsPerWindow ==
    /\ \A t \in 0..MaxClock :
          Cardinality(RecordedInWindow(t)) <= MAX_REQUESTS_PER_MINUTE
    /\ Len(request_timestamps) <= MAX_REQUESTS_PER_MINUTE
    /\ pause.held >= MAX_REQUESTS_PER_MINUTE
          => /\ pause.slept > 0
             /\ pause.at + pause.slept >= pause.oldest + TIME_WINDOW_SECONDS
             /\ pause.stamp >= pause.oldest + TIME_WINDOW_SECONDS

\* A call found MAX_REQUESTS_PER_MINUTE timestamps of the last seconds, the
\* oldest from one second before, and paused; timestamps of the window are
\* still in the list next to the new one.
C30_Witness_PausedOnFullWindow ==
    /\ pause.held = MAX_REQUESTS_PER_MINUTE
    /\ pause.at = pause.oldest + 1
    /\ pause.slept > 0
    /\ Len(issued) > MAX_REQUESTS_PER_MINUTE
    /\ Len(request_timestamps) > 1
    /\ request_timestamps[Len(request_timestamps)] = pause.stamp

\* The coroutine functions that have a call in progress.
InProgress == {task \in Tasks : co[task].pc # 0}
\* The dicts that one whole call of a handler leaves of the dicts S.
WholeCall(op, data, S, now) ==
    CASE op = "quote" ->
           [S EXCEPT !.current_bbo = LevelOneResult(data, S.current_bbo, now).current_bbo]
      [] op = "depth" ->
           LET r == LevelTwoResult(data, S.order_book, S.current_bbo, now)
           IN [S EXCEPT !.order_book = r.order_book, !.current_bbo = r.current_bbo]
      [] op = "trade" ->
           LET r == TimesaleResult(data, S.trade_log, S.current_bbo, now)
           IN [S EXCEPT !.trade_log = r.trade_log, !.current_bbo = r.current_bbo]

(***************************************************************************)
(* C22.  Under the event loop, where the turn changes only at an await,    *)
(* a handler call and a render run from their first statement to their     *)
(* last with no statement of another call in between: at most one call is  *)
(* in progress at any time; a handler call that returns leaves what the    *)
(* whole call makes of the state that the last returned call left; and a   *)
(* render that returns has logged the screen of that state, not of a state *)
(* between two statements of a handler.                                    *)
(***************************************************************************)
C22_CallsRunOneAtATime ==
    [][/\ Cardinality(InProgress') <= 1
       /\ calls' = calls + 1
            => /\ \E now \in ClockTimes :
                     Dicts' = WholeCall(last'.op, last'.data, committed, now)
               /\ committed' = Dicts'
       /\ (co["display"].pc # 0 /\ co'["display"].pc = 0)
            => /\ Dicts = committed
               /\ screen' = DisplayResult(ETF_SYMBOL, committed.current_bbo,
                                          committed.order_book,
                                          committed.trade_log).screen]_vars

\* A depth call is between its statements, the bids of the snapshot stored
\* and the asks and the quote not yet, after a render of an earlier state:
\* the state differs from the one the last returned call left, and no
\* render is in progress.
C22_Witness_HalfAppliedSnapshot ==
    /\ co["depth"].pc = 6
    /\ order_book # committed.order_book
    /\ order_book[ETF_SYMBOL].bids # <<>>
    /\ current_bbo = committed.current_bbo
    /\ InProgress = {"depth"}
    /\ last.op = "render"
    /\ calls > 0
    /\ Len(screen.sections) = 4

====
